---- MODULE Spec2Model ----
(***************************************************************************)
(* Orchestration daemon core: the AgentRegistry (agent and config maps),   *)
(* the OrchestrationEngine (private registry plus per-name conversation    *)
(* history) and the agents it drives, run as asyncio tasks on one event    *)
(* loop.  A step of the model is one uninterrupted run of a coroutine      *)
(* between two suspension points (an await of the provider, of the agent's *)
(* response stream, or of the agent's shutdown).                           *)
(***************************************************************************)
EXTENDS Integers, Sequences, FiniteSets, TLC

\* ------------------------------------------------------------------ bounds
MaxAgents == 3         \* agent instances alive at once
MaxHist == 4           \* a turn starts only if its Messages fit in this history length
MaxResp == 2           \* response Messages an agent produces in one turn
MaxShutdowns == 2      \* shutdown calls counted on one agent instance

Tasks == {1, 2}        \* the request tasks scheduled concurrently
Names == {"a", "b"}
Contents == {<<"hi">>}
OneName == {"a"}       \* the name the concurrent requests are about
RespTexts == {"x"}
ToolNames == {"search"}
None == "None"

\* ------------------------------------------------- core/models.py values
AgentState == {"idle", "processing", "restarting", "failed", "terminated"}

ProviderNames == {"sdk", "openai", "nosuch"}

\* AgentConfig: the spawn requests the model draws.
AgentConfig ==
    [name : Names, provider : {"sdk", "nosuch"}, model : {None}, api_key : {None}]
    \cup [name : Names, provider : {"openai"}, model : {None, "m"}, api_key : {"k"}]
    \cup [name : Names, provider : {"openai"}, model : {"m"}, api_key : {None}]

NoConfig == [name |-> None, provider |-> None, model |-> None, api_key |-> None]

Message(sender, recipients, content, message_type) ==
    [sender |-> sender, recipients |-> recipients, content |-> content,
     message_type |-> message_type]

AgentInfo(name, agent_type, provider, state) ==
    [name |-> name, agent_type |-> agent_type, provider |-> provider, state |-> state]

ShutdownReport(succeeded, failed) == [succeeded |-> succeeded, failed |-> failed]

\* ------------------------------------------------ Python dict (ordered)
\* A dict is the sequence of its items in insertion order.
Item(k, v) == [k |-> k, v |-> v]
Keys(d) == [i \in 1..Len(d) |-> d[i].k]
KeySet(d) == {d[i].k : i \in 1..Len(d)}
Has(d, k) == k \in KeySet(d)
Get(d, k) == d[CHOOSE i \in 1..Len(d) : d[i].k = k].v
Put(d, k, v) ==
    IF Has(d, k) THEN [i \in 1..Len(d) |-> IF d[i].k = k THEN Item(k, v) ELSE d[i]]
    ELSE Append(d, Item(k, v))
Del(d, k) == SelectSeq(d, LAMBDA e : e.k # k)

SeqSet(s) == {s[i] : i \in 1..Len(s)}
IsPrefix(s, t) == Len(s) <= Len(t) /\ SubSeq(t, 1, Len(s)) = s
SeqsUpTo(S, n) == UNION {[1..k -> S] : k \in 0..n}

\* ------------------------------------------------------------------ state
VARIABLES
    REGISTRY,     \* providers/registry.py _REGISTRY: provider name -> registered object
    agents,       \* AgentRegistry._agents: dict name -> agent instance
    configs,      \* AgentRegistry._configs: dict name -> AgentConfig
    histories,    \* OrchestrationEngine._histories: name -> list of Message
    agentObj,     \* the agent instances created so far: id -> fields
    pc,           \* per task: where its coroutine is suspended
    frame,        \* per task: the locals of its suspended coroutine
    ret,          \* outcome of the operation that completed last
    agent,        \* one agent instance driven directly: its fields
    turn,         \* the locals of its handle_message coroutine
    stopping,     \* whether its shutdown coroutine is suspended
    session,      \* the calls it has made on ClaudeSDKClient, in order
    pidfile,      \* the PID file: whether it exists and its text
    sockfile,     \* who bound the socket file; None if there is no file
    dproc         \* per daemon process: where it is and its listeners

vars == <<REGISTRY, agents, configs, histories, agentObj, pc, frame, ret,
          agent, turn, stopping, session, pidfile, sockfile, dproc>>
evars == <<REGISTRY, agents, configs, histories, agentObj, pc, frame>>
avars == <<agent, turn, stopping, session>>
dvars == <<pidfile, sockfile, dproc>>

NoObj == [name |-> None, agent_type |-> None, state |-> None, shutdowns |-> 0]
NoFrame ==
    [name |-> None, cfg |-> NoConfig, agent |-> 0, content |-> <<>>,
     names |-> <<>>, i |-> 0, report |-> ShutdownReport(<<>>, <<>>),
     responses |-> <<>>]

Result(op, name, status, value) ==
    [op |-> op, name |-> name, status |-> status, value |-> value]

NoResult == Result("none", None, "ok", <<>>)

\* Instance ids are 1..MaxAgents; a frame that holds no agent has id 0.
\* Instances are reference counted: one that neither the registry nor a
\* suspended coroutine refers to is freed, and its slot is used again.
Live(objs) == {a \in DOMAIN objs : objs[a] # NoObj}
Referenced(ags, frs) == {ags[i].v : i \in 1..Len(ags)} \cup {frs[t].agent : t \in DOMAIN frs}
Collect(objs, ags, frs) ==
    [a \in DOMAIN objs |-> IF a \in Referenced(ags, frs) THEN objs[a] ELSE NoObj]
FreeSlot(objs) == CHOOSE a \in DOMAIN objs : objs[a] = NoObj /\ \A b \in 1..(a - 1) : objs[b] # NoObj

\* The directly driven agent: the fields of SDKAgent and of
\* OpenAICompatibleAgent.  `client` is SDKAgent._client (None, "created" once
\* constructed, "connected" once connect() returned); `history` is
\* OpenAICompatibleAgent._history.
Instance(name, agent_type, mode, model, state, client, history) ==
    [name |-> name, agent_type |-> agent_type, mode |-> mode, model |-> model,
     state |-> state, client |-> client, history |-> history]
NoInstance == Instance(None, None, None, None, None, None, <<>>)

\* The locals of a suspended handle_message: where it is suspended, the
\* stream frames consumed so far, _call_api's text_buffer and
\* tool_calls_dict, and the Messages yielded so far.
NoTurn ==
    [pc |-> "idle", frames |-> <<>>, text_buffer |-> <<>>,
     tool_calls_dict |-> <<>>, out |-> <<>>]

InitEngine ==
    /\ REGISTRY = <<>>
    /\ agents = <<>>
    /\ configs = <<>>
    /\ histories = <<>>
    /\ agentObj = [a \in 1..MaxAgents |-> NoObj]
    /\ pc = [t \in Tasks |-> "idle"]
    /\ frame = [t \in Tasks |-> NoFrame]
    /\ ret = NoResult

\* No agent is driven directly.
InitNoAgent ==
    /\ agent = NoInstance
    /\ turn = NoTurn
    /\ stopping = FALSE
    /\ session = <<>>

\* No daemon process is modelled.
InitNoDaemon ==
    /\ pidfile = None
    /\ sockfile = None
    /\ dproc = <<>>

Init ==
    /\ InitEngine
    /\ InitNoAgent
    /\ InitNoDaemon

\* ------------------------------------------------------ provider registry
\* engine._load_provider: importing orchestration.providers.<name> runs the
\* package's register_provider call; an unknown name is ignored.
ProviderPackages == {"sdk", "openai"}

\* What a name is registered to: a Provider instance or a factory callable.
ProviderInstance(id) == [kind |-> "instance", id |-> id]
ProviderFactory(id) == [kind |-> "factory", id |-> id]

\* register_provider: `_REGISTRY[name] = factory`.
register_provider(reg, name, factory) ==
    [n \in DOMAIN reg \cup {name} |-> IF n = name THEN factory ELSE reg[n]]

\* list_providers: the registered names.
list_providers(reg) == DOMAIN reg

\* The package's `_provider = ...Provider(); register_provider(name, _provider)`.
LoadProvider(reg, name) ==
    IF name \in ProviderPackages THEN register_provider(reg, name, ProviderInstance(name))
    ELSE reg

\* get_provider: KeyError unless the name is registered.
ProviderRegistered(reg, name) == name \in DOMAIN reg

\* -------------------------------------------------------------- providers
EnvApiKey == None      \* OPENAI_API_KEY of the daemon's environment (unset)

\* AgentProvider.create_agent: "ok" or the error it raises.
CreateAgent(cfg) ==
    IF cfg.provider = "sdk" THEN "ok"
    ELSE IF cfg.api_key = None /\ EnvApiKey = None THEN "ProviderAuthError"
    ELSE IF cfg.model = None THEN "ProviderError"
    ELSE "ok"

\* Agent.agent_type of the instance a provider builds.
AgentTypeOf(provider) == IF provider = "sdk" THEN "sdk" ELSE "api"

NewAgent(cfg) ==
    [name |-> cfg.name, agent_type |-> AgentTypeOf(cfg.provider), state |-> "idle",
     shutdowns |-> 0]

\* ----------------------------------------------------------------- agents
\* What one turn of a backend can produce: the Messages of the turn.
ChatMessage(sender, text) == Message(sender, <<"all">>, <<text>>, "chat")
ToolMessage(sender, agent_type, tool) ==
    Message(sender, <<"all">>,
            <<IF agent_type = "sdk" THEN "Using tool: " ELSE "Tool call: ", tool>>,
            "system")
AgentMessages(obj) ==
    {ChatMessage(obj.name, x) : x \in RespTexts}
    \cup {ToolMessage(obj.name, obj.agent_type, tl) : tl \in ToolNames}
TurnResponses(obj) == SeqsUpTo(AgentMessages(obj), MaxResp)

\* The errors a backend raises during a turn, by agent type.
BackendErrors(agent_type) ==
    IF agent_type = "sdk"
    THEN {"CLINotFoundError", "ProcessError"}
    ELSE {"AuthenticationError", "APITimeoutError"}

\* The exception classes of the two backend libraries with their base
\* classes: an except clause catches a class and every class derived from it.
Ancestors(cls) ==
    CASE cls = "CLINotFoundError" ->
             {"CLINotFoundError", "CLIConnectionError", "ClaudeSDKError", "Exception"}
      [] cls = "CLIConnectionError" -> {"CLIConnectionError", "ClaudeSDKError", "Exception"}
      [] cls = "ProcessError" -> {"ProcessError", "ClaudeSDKError", "Exception"}
      [] cls = "CLIJSONDecodeError" -> {"CLIJSONDecodeError", "ClaudeSDKError", "Exception"}
      [] cls = "ClaudeSDKError" -> {"ClaudeSDKError", "Exception"}
      [] cls = "AuthenticationError" ->
             {"AuthenticationError", "APIStatusError", "APIError", "Exception"}
      [] cls = "PermissionDeniedError" ->
             {"PermissionDeniedError", "APIStatusError", "APIError", "Exception"}
      [] cls = "RateLimitError" -> {"RateLimitError", "APIStatusError", "APIError", "Exception"}
      [] cls = "InternalServerError" ->
             {"InternalServerError", "APIStatusError", "APIError", "Exception"}
      [] cls = "APITimeoutError" ->
             {"APITimeoutError", "APIConnectionError", "APIError", "Exception"}
      [] cls = "APIConnectionError" -> {"APIConnectionError", "APIError", "Exception"}
      [] OTHER -> {cls, "Exception"}

\* One except clause: the class caught, the provider error raised in its
\* place, and where that error's status_code comes from ("exc": an attribute
\* of the caught exception).
Clause(catch, raise, status_code) ==
    [catch |-> catch, raise |-> raise, status_code |-> status_code]

\* Faulty variant: the connection clause is written before the timeout clause.
ExceptClauses_ConnectionFirst(agent_type) ==
    IF agent_type = "sdk"
    THEN <<Clause("CLINotFoundError", "ProviderAuthError", None),
           Clause("ProcessError", "ProviderAPIError", "exc"),
           Clause("CLIConnectionError", "ProviderError", None),
           Clause("CLIJSONDecodeError", "ProviderError", None),
           Clause("ClaudeSDKError", "ProviderError", None)>>
    ELSE <<Clause("AuthenticationError", "ProviderAuthError", None),
           Clause("PermissionDeniedError", "ProviderAuthError", None),
           Clause("RateLimitError", "ProviderAPIError", "429"),
           Clause("APIStatusError", "ProviderAPIError", "exc"),
           Clause("APIConnectionError", "ProviderError", None),
           Clause("APITimeoutError", "ProviderTimeoutError", None)>>

\* The except clauses of handle_message, in the order they are written.
ExceptClauses(agent_type) ==
    IF agent_type = "sdk"
    THEN <<Clause("CLINotFoundError", "ProviderAuthError", None),
           Clause("ProcessError", "ProviderAPIError", "exc"),
           Clause("CLIConnectionError", "ProviderError", None),
           Clause("CLIJSONDecodeError", "ProviderError", None),
           Clause("ClaudeSDKError", "ProviderError", None)>>
    ELSE <<Clause("AuthenticationError", "ProviderAuthError", None),
           Clause("PermissionDeniedError", "ProviderAuthError", None),
           Clause("RateLimitError", "ProviderAPIError", "429"),
           Clause("APIStatusError", "ProviderAPIError", "exc"),
           Clause("APITimeoutError", "ProviderTimeoutError", None),
           Clause("APIConnectionError", "ProviderError", None)>>

\* The first clause that catches an exception of class err; 0 if none does.
Handler(agent_type, err) ==
    LET cs == ExceptClauses(agent_type)
        hit == {i \in 1..Len(cs) : cs[i].catch \in Ancestors(err)}
    IN IF hit = {} THEN 0 ELSE CHOOSE i \in hit : \A j \in hit : i <= j

\* The error handle_message re-raises for a backend error: an exception no
\* clause catches propagates as it is.
MapError(agent_type, err) ==
    IF Handler(agent_type, err) = 0 THEN err
    ELSE ExceptClauses(agent_type)[Handler(agent_type, err)].raise

\* Faulty variant: the re-raised error carries no status code.
StatusCode_Dropped(agent_type, err, code) == None

\* The status_code of the re-raised error; code is the caught exception's
\* exit_code (SDK) or status_code (chat API).
StatusCode(agent_type, err, code) ==
    IF Handler(agent_type, err) = 0 THEN None
    ELSE LET rule == ExceptClauses(agent_type)[Handler(agent_type, err)].status_code
         IN IF rule = "exc" THEN code ELSE rule

\* Faulty variant: the chat agent without its finally block.
StateAfterTurn_NoFinally(agent_type, state, err) ==
    IF err = None THEN "idle"
    ELSE IF Handler(agent_type, err) = 0 \/ agent_type # "sdk" THEN state
    ELSE "failed"

\* Faulty variant: a turn that raised leaves the agent failed on either backend.
StateAfterTurn_FailOnError(agent_type, state, err) ==
    IF err = None THEN "idle" ELSE "failed"

\* The agent's state once its turn has ended.  SDKAgent sets idle after the
\* stream and failed in each except clause, and nothing for an exception no
\* clause catches; OpenAICompatibleAgent sets idle in a finally block.
StateAfterTurn(agent_type, state, err) ==
    IF agent_type = "sdk"
    THEN IF err = None THEN "idle"
         ELSE IF Handler(agent_type, err) = 0 THEN state
         ELSE "failed"
    ELSE "idle"

\* Agent.shutdown: the ways it can end.  SDKAgent.shutdown swallows every
\* error; OpenAICompatibleAgent.shutdown raises what client.close() raises.
CloseOutcomes == {"ok", "raise"}    \* what the awaited disconnect() or close() does

\* Faulty variant: SDKAgent.shutdown without its try/except.
ShutdownResult_Propagate(agent_type, closed) == closed

\* How shutdown ends, given what the call it awaits did.
ShutdownResult(agent_type, closed) == IF agent_type = "sdk" THEN "ok" ELSE closed

ShutdownOutcomes(agent_type) == {ShutdownResult(agent_type, closed) : closed \in CloseOutcomes}
ShutdownErrorText == "close failed"

\* The agent's state once its shutdown has ended.
StateAfterShutdown(state, outcome) == IF outcome = "ok" THEN "terminated" ELSE state

SetState(objs, a, st) == [objs EXCEPT ![a].state = st]

\* `await agent.shutdown()` is reached: one more shutdown call on instance a.
CanInvoke(objs, a) == objs[a].shutdowns < MaxShutdowns
Invoked(objs, a) == [objs EXCEPT ![a].shutdowns = @ + 1]

\* ------------------------------------------------ AgentRegistry / engine
\* A request is served by the lowest free task: task identities are
\* interchangeable, so nothing is lost by fixing which one starts.
CanStart(t) == pc[t] = "idle" /\ \A u \in 1..(t - 1) : pc[u] # "idle"

\* Faulty variant: spawn without the name-uniqueness check.
NameTaken_Unchecked(ags, name) == FALSE

\* AgentRegistry.spawn: the name-uniqueness check.
NameTaken(ags, name) == Has(ags, name)

\* Faulty variant: the entry is written whatever create_agent did.
RegistryAfterSpawn_Eager(d, name, v, outcome) == Put(d, name, v)

\* AgentRegistry.spawn: an entry is written only once create_agent returned.
RegistryAfterSpawn(d, name, v, outcome) == IF outcome = "ok" THEN Put(d, name, v) ELSE d

\* Faulty variant: spawn_agent records no history entry.
HistoriesAfterSpawn_None(h, name) == h

\* engine.spawn_agent: the history entry of a name just spawned.
HistoriesAfterSpawn(h, name) == (name :> <<>>) @@ h

\* engine.spawn_agent(config) up to `await provider.create_agent(config)`.
SpawnBegin(t, cfg) ==
    /\ UNCHANGED <<avars, dvars>>
    /\ CanStart(t)
    /\ Cardinality(Live(agentObj)) + Cardinality({u \in Tasks : pc[u] = "spawn"}) < MaxAgents
    /\ REGISTRY' = LoadProvider(REGISTRY, cfg.provider)
    /\ IF NameTaken(agents, cfg.name)
       THEN /\ ret' = Result("spawn", cfg.name, "AgentAlreadyExistsError", <<>>)
            /\ UNCHANGED <<pc, frame>>
       ELSE IF ~ProviderRegistered(REGISTRY', cfg.provider)
       THEN /\ ret' = Result("spawn", cfg.name, "KeyError", <<>>)
            /\ UNCHANGED <<pc, frame>>
       ELSE /\ pc' = [pc EXCEPT ![t] = "spawn"]
            /\ frame' = [frame EXCEPT ![t] = [NoFrame EXCEPT !.name = cfg.name, !.cfg = cfg]]
            /\ ret' = NoResult
    /\ UNCHANGED <<agents, configs, histories, agentObj>>

\* create_agent returns or raises; on success the agent and its config are
\* stored and the engine initialises the history.
SpawnFinish(t) ==
    /\ UNCHANGED <<avars, dvars>>
    /\ pc[t] = "spawn"
    /\ frame' = [frame EXCEPT ![t] = NoFrame]
    /\ LET cfg == frame[t].cfg
           outcome == CreateAgent(cfg)
           a == FreeSlot(agentObj)
       IN /\ agents' = RegistryAfterSpawn(agents, cfg.name, a, outcome)
          /\ configs' = RegistryAfterSpawn(configs, cfg.name, cfg, outcome)
          /\ agentObj' = Collect([agentObj EXCEPT ![a] = NewAgent(cfg)], agents', frame')
          /\ IF outcome # "ok"
             THEN /\ ret' = Result("spawn", cfg.name, outcome, <<>>)
                  /\ UNCHANGED histories
             ELSE /\ histories' = HistoriesAfterSpawn(histories, cfg.name)
                  /\ ret' = Result("spawn", cfg.name, "ok",
                                   AgentInfo(cfg.name, NewAgent(cfg).agent_type,
                                             cfg.provider, NewAgent(cfg).state))
    /\ pc' = [pc EXCEPT ![t] = "idle"]
    /\ UNCHANGED REGISTRY

\* Faulty variant: an agent is listed when either supplied filter fits.
Matches_Either(ags, cfgs, objs, i, state, provider) ==
    \/ state = None /\ provider = None
    \/ state # None /\ objs[ags[i].v].state = state
    \/ provider # None /\ Get(cfgs, ags[i].k).provider = provider

\* AgentRegistry.list_agents(state, provider): the AgentInfo list.
Matches(ags, cfgs, objs, i, state, provider) ==
    /\ state # None => objs[ags[i].v].state = state
    /\ provider # None => Get(cfgs, ags[i].k).provider = provider
InfoAt(ags, cfgs, objs, i) ==
    AgentInfo(objs[ags[i].v].name, objs[ags[i].v].agent_type,
              Get(cfgs, ags[i].k).provider, objs[ags[i].v].state)
RECURSIVE ListFrom(_, _, _, _, _, _)
ListFrom(ags, cfgs, objs, i, state, provider) ==
    IF i > Len(ags) THEN <<>>
    ELSE (IF Matches(ags, cfgs, objs, i, state, provider)
          THEN <<InfoAt(ags, cfgs, objs, i)>> ELSE <<>>)
         \o ListFrom(ags, cfgs, objs, i + 1, state, provider)
list_agents(ags, cfgs, objs, state, provider) ==
    ListFrom(ags, cfgs, objs, 1, state, provider)

\* The filters a list request carries.
StateFilters == {None, "idle"}
ProviderFilters == {None, "sdk"}

ListAgents(t, state, provider) ==
    /\ UNCHANGED <<avars, dvars>>
    /\ CanStart(t)
    /\ ret' = Result("list_agents", None, "ok",
                     list_agents(agents, configs, agentObj, state, provider))
    /\ UNCHANGED <<REGISTRY, agents, configs, histories, agentObj, pc, frame>>

\* engine.get_history(name): histories.get(name, []).
get_history(h, name) ==
    IF name \in DOMAIN h THEN [status |-> "ok", value |-> h[name]]
    ELSE [status |-> "ok", value |-> <<>>]

\* Faulty variant: the lookup leaves an empty entry behind (setdefault).
HistoriesAfterGet_SetDefault(h, name) ==
    IF name \in DOMAIN h THEN h ELSE (name :> <<>>) @@ h

\* engine.get_history: the history map after the lookup.
HistoriesAfterGet(h, name) == h

GetHistory(t, name) ==
    /\ UNCHANGED <<avars, dvars>>
    /\ CanStart(t)
    /\ ret' = Result("get_history", name, get_history(histories, name).status,
                     get_history(histories, name).value)
    /\ histories' = HistoriesAfterGet(histories, name)
    /\ UNCHANGED <<REGISTRY, agents, configs, agentObj, pc, frame>>

\* engine.send_message: the human Message of the turn.
HumanMessage(agent_name, content) == Message("human", <<agent_name>>, content, "chat")

\* engine.send_message(name, content) up to the first await inside
\* agent.handle_message: lookup, record the human Message, state processing.
SendBegin(t, name, content) ==
    /\ UNCHANGED <<avars, dvars>>
    /\ CanStart(t)
    /\ IF ~Has(agents, name)
       THEN /\ ret' = Result("send_message", name, "AgentNotFoundError", <<>>)
            /\ UNCHANGED <<histories, agentObj, pc, frame>>
       ELSE IF name \notin DOMAIN histories
       THEN /\ ret' = Result("send_message", name, "KeyError", <<>>)
            /\ UNCHANGED <<histories, agentObj, pc, frame>>
       ELSE /\ Len(histories[name]) + 1 + MaxResp <= MaxHist
            /\ histories' = [histories EXCEPT
                                ![name] = Append(@, HumanMessage(name, content))]
            /\ agentObj' = SetState(agentObj, Get(agents, name), "processing")
            /\ pc' = [pc EXCEPT ![t] = "send"]
            /\ frame' = [frame EXCEPT ![t] = [NoFrame EXCEPT !.name = name,
                                                 !.agent = Get(agents, name),
                                                 !.content = content]]
            /\ ret' = NoResult
    /\ UNCHANGED <<REGISTRY, agents, configs>>

\* Faulty variant: only the last response of the turn is recorded.
HistoryAfterTurn_LastOnly(hist, responses) ==
    IF responses = <<>> THEN hist ELSE Append(hist, responses[Len(responses)])

\* engine.send_message: the history once the drained responses are recorded.
HistoryAfterTurn(hist, responses) == hist \o responses

\* engine.send_message: what the call returns.
Returned(responses) == responses

\* The response stream is exhausted: the responses are recorded and returned.
SendFinish(t) ==
    /\ UNCHANGED <<avars, dvars>>
    /\ pc[t] = "send"
    /\ frame' = [frame EXCEPT ![t] = NoFrame]
    /\ LET a == frame[t].agent
           name == frame[t].name
       IN \E responses \in TurnResponses(agentObj[a]) :
            /\ agentObj' = Collect(SetState(agentObj, a,
                              StateAfterTurn(agentObj[a].agent_type, agentObj[a].state, None)),
                              agents, frame')
            /\ histories' = [histories EXCEPT
                                ![name] = HistoryAfterTurn(@, responses)]
            /\ ret' = Result("send_message", name, "ok", Returned(responses))
    /\ pc' = [pc EXCEPT ![t] = "idle"]
    /\ UNCHANGED <<REGISTRY, agents, configs>>

\* Faulty variant: the responses collected before the error are recorded.
HistoryAfterFailedTurn_Partial(hist, produced) == hist \o produced

\* engine.send_message: the local `responses` list is lost when the stream
\* raises; `extend` is not reached.
HistoryAfterFailedTurn(hist, produced) == hist

\* What the agent has yielded when its stream raises: nothing, or a Message.
ProducedBeforeError(obj) == {<<>>} \cup {<<m>> : m \in AgentMessages(obj)}

\* The response stream raises after the agent has produced some responses:
\* the error propagates, nothing more is recorded.
SendFail(t) ==
    /\ UNCHANGED <<avars, dvars>>
    /\ pc[t] = "send"
    /\ frame' = [frame EXCEPT ![t] = NoFrame]
    /\ LET a == frame[t].agent
           name == frame[t].name
       IN \E err \in BackendErrors(agentObj[a].agent_type),
             produced \in ProducedBeforeError(agentObj[a]) :
            /\ agentObj' = Collect(SetState(agentObj, a,
                              StateAfterTurn(agentObj[a].agent_type, agentObj[a].state, err)),
                              agents, frame')
            /\ histories' = [histories EXCEPT
                                ![name] = HistoryAfterFailedTurn(@, produced)]
            /\ ret' = Result("send_message", name,
                             MapError(agentObj[a].agent_type, err), <<>>)
    /\ pc' = [pc EXCEPT ![t] = "idle"]
    /\ UNCHANGED <<REGISTRY, agents, configs>>

\* Faulty variant: shutting an agent down drops its history entry.
HistoriesAfterShutdown_Drop(h, names) == [n \in DOMAIN h \ names |-> h[n]]

\* engine.shutdown_agent / shutdown_all: the history map is not touched.
HistoriesAfterShutdown(h, names) == h

\* Faulty variant: the entry is deleted only when the shutdown returned.
RegistryAfterShutdown_OnSuccess(d, name, outcome) ==
    IF outcome = "ok" THEN Del(d, name) ELSE d

\* AgentRegistry.shutdown_agent, `finally`: the entry is deleted whatever
\* the agent's shutdown did.
RegistryAfterShutdown(d, name, outcome) == Del(d, name)

\* Faulty variant: the config entry is left behind.
ConfigsAfterShutdown_Keep(cfgs, name, outcome) == cfgs

\* AgentRegistry.shutdown_agent, `finally`: `del self._configs[name]`, right
\* after the agent entry is deleted.
ConfigsAfterShutdown(cfgs, name, outcome) == RegistryAfterShutdown(cfgs, name, outcome)

\* engine.shutdown_agent(name) up to `await agent.shutdown()`.
ShutdownBegin(t, name) ==
    /\ UNCHANGED <<avars, dvars>>
    /\ CanStart(t)
    /\ IF ~Has(agents, name)
       THEN /\ ret' = Result("shutdown_agent", name, "AgentNotFoundError", <<>>)
            /\ UNCHANGED <<pc, frame>>
            /\ UNCHANGED agentObj
       ELSE /\ pc' = [pc EXCEPT ![t] = "shutdown"]
            /\ frame' = [frame EXCEPT ![t] = [NoFrame EXCEPT !.name = name,
                                                 !.agent = Get(agents, name)]]
            /\ CanInvoke(agentObj, Get(agents, name))
            /\ agentObj' = Invoked(agentObj, Get(agents, name))
            /\ ret' = NoResult
    /\ UNCHANGED <<REGISTRY, agents, configs, histories>>

\* agent.shutdown() returns or raises; the `finally` block deletes both
\* entries (`del` raises KeyError when the key is gone).
ShutdownFinish(t) ==
    /\ UNCHANGED <<avars, dvars>>
    /\ pc[t] = "shutdown"
    /\ frame' = [frame EXCEPT ![t] = NoFrame]
    /\ LET a == frame[t].agent
           name == frame[t].name
       IN \E outcome \in ShutdownOutcomes(agentObj[a].agent_type) :
            /\ IF ~Has(agents, name)
               THEN /\ ret' = Result("shutdown_agent", name, "KeyError", <<>>)
                    /\ UNCHANGED <<agents, configs>>
               ELSE /\ agents' = RegistryAfterShutdown(agents, name, outcome)
                    /\ IF ~Has(configs, name)
                       THEN /\ ret' = Result("shutdown_agent", name, "KeyError", <<>>)
                            /\ UNCHANGED configs
                       ELSE /\ configs' = ConfigsAfterShutdown(configs, name, outcome)
                            /\ ret' = Result("shutdown_agent", name,
                                             IF outcome = "ok" THEN "ok"
                                             ELSE "AgentShutdownError", <<>>)
            /\ agentObj' = Collect(SetState(agentObj, a,
                                      StateAfterShutdown(agentObj[a].state, outcome)),
                                   agents', frame')
            /\ histories' = HistoriesAfterShutdown(histories, {name})
    /\ pc' = [pc EXCEPT ![t] = "idle"]
    /\ UNCHANGED REGISTRY

\* Faulty variant: the name is appended to succeeded before the await.
RecordOutcome_AppendFirst(report, name, outcome) ==
    IF outcome = "ok"
    THEN [report EXCEPT !.succeeded = Append(@, name)]
    ELSE [report EXCEPT !.succeeded = Append(@, name),
                        !.failed = (name :> ShutdownErrorText) @@ @]

\* AgentRegistry.shutdown_all: one agent's outcome recorded in the report.
RecordOutcome(report, name, outcome) ==
    IF outcome = "ok"
    THEN [report EXCEPT !.succeeded = Append(@, name)]
    ELSE [report EXCEPT !.failed = (name :> ShutdownErrorText) @@ @]

\* Faulty variant: the agents registered last come first.
Snapshot_NewestFirst(ags) == [i \in 1..Len(ags) |-> ags[Len(ags) + 1 - i].k]

\* AgentRegistry.shutdown_all: `names = list(self._agents.keys())`.
Snapshot(ags) == Keys(ags)

\* engine.shutdown_all() up to the first `await agent.shutdown()`; with no
\* agent registered it returns at once.
ShutdownAllBegin(t) ==
    /\ UNCHANGED avars
    /\ CanStart(t)
    /\ LET names == Snapshot(agents)
       IN IF names = <<>>
          THEN /\ ret' = Result("shutdown_all", None, "ok", ShutdownReport(<<>>, <<>>))
               /\ UNCHANGED <<pc, frame, agentObj>>
          ELSE /\ pc' = [pc EXCEPT ![t] = "shutdown_all"]
               /\ frame' = [frame EXCEPT ![t] = [NoFrame EXCEPT !.names = names, !.i = 1,
                                                    !.name = names[1],
                                                    !.agent = Get(agents, names[1])]]
               /\ CanInvoke(agentObj, Get(agents, names[1]))
               /\ agentObj' = Invoked(agentObj, Get(agents, names[1]))
               /\ ret' = NoResult
    /\ histories' = HistoriesAfterShutdown(histories, KeySet(agents))
    /\ UNCHANGED <<REGISTRY, agents, configs>>

\* The awaited shutdown of names[i] returns or raises; the loop goes on to
\* the next name (`self._agents[name]` raises KeyError when it is gone) or,
\* after the last one, clears both maps and returns the report.
ShutdownAllStep(t) ==
    /\ UNCHANGED <<avars, dvars>>
    /\ pc[t] = "shutdown_all"
    /\ LET f == frame[t]
           a == f.agent
       IN \E outcome \in ShutdownOutcomes(agentObj[a].agent_type) :
            LET report == RecordOutcome(f.report, f.name, outcome)
                ended == SetState(agentObj, a, StateAfterShutdown(agentObj[a].state, outcome))
            IN /\ IF f.i < Len(f.names)
                  THEN IF Has(agents, f.names[f.i + 1])
                       THEN /\ frame' = [frame EXCEPT ![t] =
                                            [f EXCEPT !.i = f.i + 1,
                                                      !.name = f.names[f.i + 1],
                                                      !.agent = Get(agents, f.names[f.i + 1]),
                                                      !.report = report]]
                            /\ ret' = NoResult
                            /\ UNCHANGED <<agents, configs, pc>>
                            /\ CanInvoke(agentObj, Get(agents, f.names[f.i + 1]))
                            /\ agentObj' = Collect(Invoked(ended, Get(agents, f.names[f.i + 1])),
                                                   agents', frame')
                       ELSE /\ ret' = Result("shutdown_all", None, "KeyError", <<>>)
                            /\ pc' = [pc EXCEPT ![t] = "idle"]
                            /\ frame' = [frame EXCEPT ![t] = NoFrame]
                            /\ UNCHANGED <<agents, configs>>
                            /\ agentObj' = Collect(ended, agents', frame')
                  ELSE /\ agents' = <<>>
                       /\ configs' = <<>>
                       /\ ret' = Result("shutdown_all", None, "ok", report)
                       /\ pc' = [pc EXCEPT ![t] = "idle"]
                       /\ frame' = [frame EXCEPT ![t] = NoFrame]
                       /\ agentObj' = Collect(ended, agents', frame')
    /\ histories' = HistoriesAfterShutdown(histories, SeqSet(frame[t].names))
    /\ UNCHANGED REGISTRY

\* ---------------------------------------------------------- specification
\* One step of task t, its requests drawn from the names N.
Step(t, N) ==
    \/ \E cfg \in {c \in AgentConfig : c.name \in N} : SpawnBegin(t, cfg)
    \/ SpawnFinish(t)
    \/ \E st \in StateFilters, pr \in ProviderFilters : ListAgents(t, st, pr)
    \/ \E n \in N : GetHistory(t, n)
    \/ \E n \in N, c \in Contents : SendBegin(t, n, c)
    \/ SendFinish(t)
    \/ SendFail(t)
    \/ \E n \in N : ShutdownBegin(t, n)
    \/ ShutdownFinish(t)
    \/ ShutdownAllBegin(t) /\ UNCHANGED dvars
    \/ ShutdownAllStep(t)

\* Concurrent requests about one agent name.
Next == \E t \in Tasks : Step(t, OneName)
Spec == Init /\ [][Next]_vars

\* Requests about every name, run one at a time: a single task serves
\* them, each to completion before the next starts.
OneTask == {1}
NextSeq == \E t \in OneTask : Step(t, Names)
SpecSeq == Init /\ [][NextSeq]_vars

\* ------------------------------------------------- one agent, driven directly
\* The agent's own coroutines, called as the engine and the registry call
\* them: handle_message turns one after another, and shutdown at any moment,
\* a turn in flight or not.
Modes == {"query", "client"}
Prompts == {None, "sys"}

\* One entry of OpenAICompatibleAgent._history.  A content of None is <<None>>.
HistoryEntry(role, content, tool_calls) ==
    [role |-> role, content |-> content, tool_calls |-> tool_calls]

\* SDKAgent.__init__.
NewSDKAgent(name, mode) == Instance(name, "sdk", mode, None, "idle", None, <<>>)

\* OpenAICompatibleAgent.__init__: the system prompt, if given, is the first
\* history entry.
NewAPIAgent(name, model, system_prompt) ==
    Instance(name, "api", None, model, "idle", None,
             IF system_prompt = None THEN <<>>
             ELSE <<HistoryEntry("system", <<system_prompt>>, <<>>)>>)

Instances ==
    {NewSDKAgent("a", m) : m \in Modes} \cup {NewAPIAgent("a", "m", p) : p \in Prompts}

\* An exception a backend raises: its class, and its exit_code (ProcessError)
\* or status_code (APIStatusError).
Exc(cls, code) == [cls |-> cls, code |-> code]
Raisable(agent_type) ==
    IF agent_type = "sdk"
    THEN {Exc("CLINotFoundError", None), Exc("ProcessError", "1"),
          Exc("ProcessError", None), Exc("CLIConnectionError", None),
          Exc("CLIJSONDecodeError", None), Exc("ClaudeSDKError", None),
          Exc("Exception", None)}
    ELSE {Exc("AuthenticationError", "401"), Exc("PermissionDeniedError", "403"),
          Exc("RateLimitError", "429"), Exc("InternalServerError", "503"),
          Exc("APITimeoutError", None), Exc("APIConnectionError", None),
          Exc("Exception", None)}

\* A streamed frame of the chat API.  A string is the sequence of its pieces,
\* so that concatenation is \o and the empty string is <<>>.
Fragment(index, id, name, arguments) ==
    [index |-> index, id |-> id, name |-> name, arguments |-> arguments]
Chunk(choices, content, tool_calls) ==
    [choices |-> choices, content |-> content, tool_calls |-> tool_calls]
ArgHead == "{\"q\":"
ArgTail == "\"hi\"}"
TextFrame == Chunk(TRUE, <<"Hello">>, <<>>)
SearchFrame == Chunk(TRUE, <<>>, <<Fragment(0, <<"call_1">>, <<"search">>, <<ArgHead>>)>>)
ArgsFrame == Chunk(TRUE, <<>>, <<Fragment(0, <<>>, <<>>, <<ArgTail>>)>>)
Frames ==
    {Chunk(FALSE, <<>>, <<>>), TextFrame, Chunk(TRUE, <<" ">>, <<>>),
     SearchFrame, ArgsFrame,
     Chunk(TRUE, <<>>, <<Fragment(1, <<"call_2">>, <<"read">>, <<>>)>>),
     Chunk(TRUE, <<>>, <<Fragment(1, <<"call_9">>, <<>>, <<>>)>>)}
TurnFrames == {TextFrame, SearchFrame}
Whitespace == {" "}

\* _call_api: one tool-call entry as first created, and the entries after the
\* fragments of one frame: the id is replaced, name and arguments are
\* appended to.
NoToolCall == [id |-> <<>>, name |-> <<>>, arguments |-> <<>>]
RECURSIVE AddFragments(_, _)
AddFragments(d, tcs) ==
    IF tcs = <<>> THEN d
    ELSE LET tc == Head(tcs)
             e == IF tc.index \in DOMAIN d THEN d[tc.index] ELSE NoToolCall
             f == [id |-> IF tc.id # <<>> THEN tc.id ELSE e.id,
                   name |-> e.name \o tc.name,
                   arguments |-> e.arguments \o tc.arguments]
         IN AddFragments((tc.index :> f) @@ d, Tail(tcs))

\* _call_api: the loop body for one frame.
Accumulate(tr, chunk) ==
    IF ~chunk.choices THEN tr
    ELSE [tr EXCEPT !.text_buffer = @ \o chunk.content,
                    !.tool_calls_dict = AddFragments(@, chunk.tool_calls)]

RECURSIVE Sorted(_)
Sorted(S) ==
    IF S = {} THEN <<>>
    ELSE LET m == CHOOSE x \in S : \A y \in S : x <= y
         IN <<m>> \o Sorted(S \ {m})

RECURSIVE Reversed(_)
Reversed(s) == IF s = <<>> THEN <<>> ELSE Append(Reversed(Tail(s)), Head(s))

\* Faulty variant: the tool calls in descending index order.
tool_calls_list_Descending(d) ==
    [i \in 1..Cardinality(DOMAIN d) |-> d[Reversed(Sorted(DOMAIN d))[i]]]

\* _call_api: [tool_calls_dict[k] for k in sorted(tool_calls_dict)].
tool_calls_list(d) == [i \in 1..Cardinality(DOMAIN d) |-> d[Sorted(DOMAIN d)[i]]]

\* A Message with its metadata.
MetaMessage(sender, recipients, content, message_type, metadata) ==
    [sender |-> sender, recipients |-> recipients, content |-> content,
     message_type |-> message_type, metadata |-> metadata]

\* translation.build_text_message: None (here <<>>) for a text that is empty
\* or all whitespace, else the chat Message (here a one-element sequence).
Blank(text) == \A i \in 1..Len(text) : text[i] \in Whitespace
build_text_message(text, agent_name, model) ==
    IF Blank(text) THEN <<>>
    ELSE <<MetaMessage(agent_name, <<"all">>, text, "chat",
                       [provider |-> "openai", model |-> model])>>

\* translation.build_tool_call_message.
build_tool_call_message(tool_call, agent_name) ==
    MetaMessage(agent_name, <<"all">>, <<"Tool call: ">> \o tool_call.name, "system",
                [provider |-> "openai", type |-> "tool_call",
                 tool_call_id |-> tool_call.id, tool_name |-> tool_call.name,
                 tool_arguments |-> tool_call.arguments])

\* translation.build_messages.
build_messages(text_buffer, tcl, agent_name, model) ==
    build_text_message(text_buffer, agent_name, model)
    \o [i \in 1..Len(tcl) |-> build_tool_call_message(tcl[i], agent_name)]

\* _append_assistant_history: the entry built.
AssistantEntry(text, tool_calls) ==
    IF tool_calls # <<>>
    THEN HistoryEntry("assistant", IF text # <<>> THEN text ELSE <<None>>, tool_calls)
    ELSE HistoryEntry("assistant", text, <<>>)

\* Faulty variant: the assistant entry overwrites the last entry.
append_assistant_history_Replace(history, text, tool_calls) ==
    [history EXCEPT ![Len(history)] = AssistantEntry(text, tool_calls)]

\* _append_assistant_history: self._history.append(entry).
append_assistant_history(history, text, tool_calls) ==
    Append(history, AssistantEntry(text, tool_calls))

Turns(history) == Cardinality({i \in 1..Len(history) : history[i].role = "user"})

MaxFrames == 3         \* stream frames of one chat-API turn
MaxTurns == 2          \* turns of one chat-API agent
MaxCalls == 5          \* calls one SDK agent makes on ClaudeSDKClient

\* What a raised error carries: its status_code, and the exception it was
\* raised from (`raise ... from exc`).
Raised(status_code, cause) == [status_code |-> status_code, cause |-> cause]

\* The turn ends by raising exception e: the state the except clauses and the
\* finally block leave, and the error re-raised.
Raise(e) ==
    /\ agent' = [agent EXCEPT !.state = StateAfterTurn(agent.agent_type, @, e.cls)]
    /\ turn' = NoTurn
    /\ ret' = Result("handle_message", agent.name, MapError(agent.agent_type, e.cls),
                     Raised(StatusCode(agent.agent_type, e.cls, e.code), e))

\* Faulty variant: every turn of a client-mode agent builds a session.
NeedsSession_Always(a) == a.mode = "client"

\* _handle_client_mode: `if self._client is None`.
NeedsSession(a) == a.mode = "client" /\ a.client = None

\* The ClaudeSDKClient calls handle_message makes before its first await:
\* the constructor and connect() if it holds no session, else query().
CallsAtStart(a) ==
    IF a.mode # "client" THEN <<>>
    ELSE IF NeedsSession(a) THEN <<"create", "connect">>
    ELSE <<"query">>

\* handle_message up to its first await: the state is set to processing; the
\* chat agent appends the user entry; the SDK agent in client mode creates
\* the session if it holds none.
HandleMessage(content, maxTurns) ==
    /\ turn.pc = "idle"
    /\ agent.agent_type = "api" => Turns(agent.history) < maxTurns
    /\ Len(session) + Len(CallsAtStart(agent)) <= MaxCalls
    /\ session' = session \o CallsAtStart(agent)
    /\ agent' = [agent EXCEPT
                   !.state = "processing",
                   !.history = IF agent.agent_type = "api"
                               THEN Append(@, HistoryEntry("user", content, <<>>))
                               ELSE @,
                   !.client = IF NeedsSession(agent) THEN "created" ELSE @]
    /\ turn' = [NoTurn EXCEPT !.pc = IF agent.agent_type = "api" THEN "create"
                                     ELSE IF agent.mode = "query" THEN "receive"
                                     ELSE IF NeedsSession(agent) THEN "connect"
                                     ELSE "query"]
    /\ ret' = NoResult
    /\ UNCHANGED <<stopping, evars, dvars>>

\* `await self._client.connect()` returns; `self._client.query` is looked up
\* next, which fails on the None a shutdown has left meanwhile, and is
\* called.
Connect ==
    /\ turn.pc = "connect"
    /\ IF agent.client = None
       THEN Raise(Exc("AttributeError", None)) /\ UNCHANGED session
       ELSE /\ Len(session) < MaxCalls
            /\ agent' = [agent EXCEPT !.client = "connected"]
            /\ turn' = [turn EXCEPT !.pc = "query"]
            /\ session' = Append(session, "query")
            /\ ret' = NoResult
    /\ UNCHANGED <<stopping, evars, dvars>>

\* `await self._client.query(...)` returns; `self._client.receive_response`
\* is looked up next.
Query ==
    /\ turn.pc = "query"
    /\ IF agent.client = None
       THEN Raise(Exc("AttributeError", None))
       ELSE /\ turn' = [turn EXCEPT !.pc = "receive"]
            /\ ret' = NoResult
            /\ UNCHANGED agent
    /\ UNCHANGED <<stopping, session, evars, dvars>>

\* The SDK stream delivers a message, which is translated and yielded.
Receive(m) ==
    /\ turn.pc = "receive"
    /\ Len(turn.out) < MaxResp
    /\ turn' = [turn EXCEPT !.out = Append(@, m)]
    /\ ret' = NoResult
    /\ UNCHANGED <<agent, stopping, session, evars, dvars>>

\* The SDK stream is exhausted.
TurnEnd ==
    /\ turn.pc = "receive"
    /\ agent' = [agent EXCEPT !.state = StateAfterTurn(agent.agent_type, @, None)]
    /\ turn' = NoTurn
    /\ ret' = Result("handle_message", agent.name, "ok", turn.out)
    /\ UNCHANGED <<stopping, session, evars, dvars>>

\* An await of the turn raises.
TurnRaise(e) ==
    /\ turn.pc # "idle"
    /\ Raise(e)
    /\ UNCHANGED <<stopping, session, evars, dvars>>

\* `await self._client.chat.completions.create(...)` returns the stream.
Create ==
    /\ turn.pc = "create"
    /\ turn' = [turn EXCEPT !.pc = "stream"]
    /\ ret' = NoResult
    /\ UNCHANGED <<agent, stopping, session, evars, dvars>>

\* The chat stream delivers a frame.
StreamChunk(chunk, maxFrames) ==
    /\ turn.pc = "stream"
    /\ Len(turn.frames) < maxFrames
    /\ turn' = Accumulate([turn EXCEPT !.frames = Append(@, chunk)], chunk)
    /\ ret' = NoResult
    /\ UNCHANGED <<agent, stopping, session, evars, dvars>>

\* The chat stream is exhausted: the Messages are built, the assistant entry
\* is appended, the Messages are yielded and the finally block runs.
StreamEnd ==
    /\ turn.pc = "stream"
    /\ LET tcl == tool_calls_list(turn.tool_calls_dict)
       IN /\ agent' = [agent EXCEPT
                         !.history = append_assistant_history(@, turn.text_buffer, tcl),
                         !.state = StateAfterTurn(agent.agent_type, @, None)]
          /\ ret' = Result("handle_message", agent.name, "ok",
                           build_messages(turn.text_buffer, tcl, agent.name, agent.model))
    /\ turn' = NoTurn
    /\ UNCHANGED <<stopping, session, evars, dvars>>

\* shutdown up to its await: SDKAgent awaits disconnect() only if it holds a
\* session and is terminated at once otherwise; the chat agent awaits close().
Shutdown ==
    /\ ~stopping
    /\ IF agent.agent_type = "sdk" /\ agent.client = None
       THEN /\ agent' = [agent EXCEPT !.state = StateAfterShutdown(@, "ok")]
            /\ ret' = Result("shutdown", agent.name, "ok", None)
            /\ UNCHANGED <<stopping, session>>
       ELSE /\ agent.agent_type = "sdk" => Len(session) < MaxCalls
            /\ stopping' = TRUE
            /\ session' = IF agent.agent_type = "sdk"
                           THEN Append(session, "disconnect") ELSE session
            /\ ret' = NoResult
            /\ UNCHANGED agent
    /\ UNCHANGED <<turn, evars, dvars>>

\* The awaited disconnect() or close() ends.  SDKAgent drops the session and
\* is terminated whatever disconnect() did; the chat agent is terminated
\* unless close() raised.  The result records what the awaited call did.
ShutdownReturn(closed) ==
    /\ stopping
    /\ stopping' = FALSE
    /\ LET outcome == ShutdownResult(agent.agent_type, closed)
       IN /\ agent' = [agent EXCEPT
                         !.state = StateAfterShutdown(@, outcome),
                         !.client = IF outcome = "ok" THEN None ELSE @]
          /\ ret' = Result("shutdown", agent.name,
                           IF outcome = "ok" THEN "ok" ELSE ShutdownErrorText, closed)
    /\ UNCHANGED <<turn, session, evars, dvars>>

AgentStep(F, maxFrames, maxTurns) ==
    \/ \E content \in Contents : HandleMessage(content, maxTurns)
    \/ Connect
    \/ Query
    \/ \E m \in AgentMessages(agent) : Receive(m)
    \/ TurnEnd
    \/ \E e \in Raisable(agent.agent_type) : TurnRaise(e)
    \/ Create
    \/ \E chunk \in F : StreamChunk(chunk, maxFrames)
    \/ StreamEnd
    \/ Shutdown
    \/ \E closed \in CloseOutcomes : ShutdownReturn(closed)

InitAgent ==
    /\ InitEngine
    /\ agent \in Instances
    /\ turn = NoTurn
    /\ stopping = FALSE
    /\ session = <<>>
    /\ InitNoDaemon

\* One agent over its life: turns in sequence, shutdown interleaved.
NextAgent == AgentStep(TurnFrames, MaxResp, MaxTurns)
SpecAgent == InitAgent /\ [][NextAgent]_vars

\* One chat turn over every stream of up to MaxFrames frames.
NextStream == AgentStep(Frames, MaxFrames, 1)
SpecStream == InitAgent /\ [][NextStream]_vars

\* ------------------------------------------------- server/daemon.py files
\* The daemon processes started by `serve`, a live process of another user
\* (os.kill gives EPERM) and a process that no longer exists (ESRCH).
Daemons == {"p1", "p2"}
ForeignPid == "foreign"
GonePid == "gone"
Pids == Daemons \cup {ForeignPid, GonePid}
Ports == {"7862", "7863"}      \* DaemonConfig.port and a `--port` override
Listeners == {"uds", "http"}

\* A file: whether it exists and its text, a sequence of pieces.
File(text) == [exists |-> TRUE, text |-> text]
NoFile == [exists |-> FALSE, text |-> <<>>]

\* str(pid) and int(text.strip()): a text of one piece naming a process is
\* that process's number, any other text is a ValueError.
PidText(pid) == <<pid>>
IsPidText(text) == Len(text) = 1 /\ text[1] \in Pids
ParsePid(text) == IF IsPidText(text) THEN text[1] ELSE None

\* write_pid_file, remove_pid_file (unlinks whatever the file holds),
\* read_pid_file (None for no file or no integer).
write_pid_file(pid) == File(PidText(pid))
remove_pid_file(file) == NoFile
read_pid_file(file) == IF file.exists THEN ParsePid(file.text) ELSE None

\* remove_socket_file: the path is unlinked whoever bound it.
remove_socket_file(sock) == None

\* A daemon process: where it is in _start_daemon / start_server, its port,
\* its two uvicorn servers and their should_exit flags, how the TaskGroup
\* was left, and the steps of the finally block it has completed.
Proc(pc_, port, servers, should_exit, shutdown_event, cause, cleanup) ==
    [pc |-> pc_, port |-> port, servers |-> servers, should_exit |-> should_exit,
     shutdown_event |-> shutdown_event, cause |-> cause, cleanup |-> cleanup]
NoProc ==
    Proc("none", "7862", [l \in Listeners |-> "off"], [l \in Listeners |-> FALSE],
         FALSE, None, <<>>)

\* The process exists: it was started and has not exited.
Alive(proc) == proc.pc \notin {"none", "refused", "exited"}

\* os.kill(pid, 0): "ok", or the errno of the OSError.
Kill0(pid, dp) ==
    IF pid = ForeignPid THEN "EPERM"
    ELSE IF pid \in DOMAIN dp /\ Alive(dp[pid]) THEN "ok"
    ELSE "ESRCH"

\* Faulty variant: a process that cannot be signalled counts as stale.
is_daemon_running_EpermStale(file, dp) ==
    LET pid == read_pid_file(file)
    IN IF pid = None THEN [running |-> FALSE, file |-> file]
       ELSE IF Kill0(pid, dp) = "ok" THEN [running |-> TRUE, file |-> file]
       ELSE [running |-> FALSE, file |-> remove_pid_file(file)]

\* is_daemon_running: the answer and the PID file it leaves.
is_daemon_running(file, dp) ==
    LET pid == read_pid_file(file)
    IN IF pid = None THEN [running |-> FALSE, file |-> file]
       ELSE IF Kill0(pid, dp) = "ok" THEN [running |-> TRUE, file |-> file]
       ELSE IF Kill0(pid, dp) = "ESRCH"
       THEN [running |-> FALSE, file |-> remove_pid_file(file)]
       ELSE [running |-> TRUE, file |-> file]

\* The PID files and socket files a first `serve` can find: none, an empty
\* or non-numeric file, the PID of a process that is gone or of a live
\* process of another user; no socket or one left by a crashed daemon.
PidFiles == {NoFile, File(<<>>), File(<<"x">>), File(PidText(GonePid)), File(PidText(ForeignPid))}
SockFiles == {None, "stale"}

\* ------------------------------------------ cli/commands/serve.py, daemon
\* The daemon process whose engine is the modelled one, as request task 1.
Owner == "p1"
EngineTask == 1

SetProc(dp, p, proc) == [dp EXCEPT ![p] = proc]

\* serve --status from any shell: _show_status reports is_daemon_running.
Status ==
    /\ LET r == is_daemon_running(pidfile, dproc)
       IN /\ pidfile' = r.file
          /\ ret' = Result("status", None, "ok", r.running)
    /\ UNCHANGED <<sockfile, dproc, evars, avars>>

\* Faulty variant: the daemon starts whatever the check answers.
Refused_Never(running) == FALSE

\* _start_daemon: the start is refused (exit code 1) iff a daemon is running.
Refused(running) == running

\* serve [--port]: _start_daemon runs the already-running check.
Start(p, port) ==
    /\ dproc[p].pc = "none"
    /\ LET r == is_daemon_running(pidfile, dproc)
       IN /\ pidfile' = r.file
          /\ dproc' = SetProc(dproc, p,
                 [dproc[p] EXCEPT !.pc = IF Refused(r.running) THEN "refused" ELSE "checked",
                                  !.port = port])
          /\ ret' = Result("is_daemon_running", p, "ok", r.running)
    /\ UNCHANGED <<sockfile, evars, avars>>

\* start_server up to the listeners' configuration: a stale socket file is
\* removed.
Prepare(p) ==
    /\ dproc[p].pc = "checked"
    /\ sockfile' = remove_socket_file(sockfile)
    /\ dproc' = SetProc(dproc, p, [dproc[p] EXCEPT !.pc = "prepared"])
    /\ UNCHANGED <<pidfile, ret, evars, avars>>

\* The signal handlers are installed, the PID file is written and the two
\* servers are started in one TaskGroup.
WritePid(p) ==
    /\ dproc[p].pc = "prepared"
    /\ pidfile' = write_pid_file(p)
    /\ dproc' = SetProc(dproc, p,
           [dproc[p] EXCEPT !.pc = "serving", !.servers = [l \in Listeners |-> "starting"]])
    /\ UNCHANGED <<sockfile, ret, evars, avars>>

\* The TCP port is held by another daemon's HTTP listener.
PortTaken(dp, p) ==
    \E q \in DOMAIN dp \ {p} :
        Alive(dp[q]) /\ dp[q].port = dp[p].port /\ dp[q].servers["http"] = "listening"

Running(server) == server \in {"starting", "listening"}

\* uvicorn startup of one server: it binds its socket; the Unix socket
\* file is (re)created by the process that binds it.
Bind(p, l) ==
    /\ dproc[p].pc = "serving"
    /\ dproc[p].servers[l] = "starting"
    /\ l = "http" => ~PortTaken(dproc, p)
    /\ dproc' = SetProc(dproc, p, [dproc[p] EXCEPT !.servers[l] = "listening"])
    /\ sockfile' = IF l = "uds" THEN p ELSE sockfile
    /\ UNCHANGED <<pidfile, ret, evars, avars>>

\* The requests of the serving daemon have all been answered.
Quiescent(p) == p = Owner => pc[EngineTask] = "idle"

\* The TaskGroup is left: the servers still running are cancelled and the
\* finally block is entered.
LeaveTaskGroup(proc, l, how, cause) ==
    [proc EXCEPT !.pc = "finally", !.cause = cause,
                 !.servers = [m \in Listeners |->
                                 IF m = l THEN how
                                 ELSE IF Running(proc.servers[m]) THEN "cancelled"
                                 ELSE proc.servers[m]]]

\* One server's serve() raises (its address is in use, its socket breaks).
ListenerFail(p, l) ==
    /\ dproc[p].pc = "serving"
    /\ Running(dproc[p].servers[l])
    /\ Quiescent(p)
    /\ dproc' = SetProc(dproc, p, LeaveTaskGroup(dproc[p], l, "failed", "failed"))
    /\ UNCHANGED <<pidfile, sockfile, ret, evars, avars>>

\* Faulty variant: only the Unix-socket server is told to exit.
FlaggedBySignal_UdsOnly == {"uds"}

\* _signal_handler: the servers whose should_exit it sets.
FlaggedBySignal == {"uds", "http"}

\* _signal_handler on SIGTERM or SIGINT: the shutdown event is set and both
\* servers are told to exit.
Signal(p) ==
    /\ dproc[p].pc \in {"serving", "finally"}
    /\ dproc' = SetProc(dproc, p,
           [dproc[p] EXCEPT !.shutdown_event = TRUE,
                            !.should_exit = [l \in Listeners |->
                                                @[l] \/ l \in FlaggedBySignal]])
    /\ UNCHANGED <<pidfile, sockfile, ret, evars, avars>>

\* A server told to exit leaves its main loop and serve() returns.
ListenerExit(p, l) ==
    /\ dproc[p].pc = "serving"
    /\ Running(dproc[p].servers[l])
    /\ dproc[p].should_exit[l]
    /\ Quiescent(p)
    /\ dproc' = SetProc(dproc, p, [dproc[p] EXCEPT !.servers[l] = "done"])
    /\ UNCHANGED <<pidfile, sockfile, ret, evars, avars>>

\* Both serve() calls have returned: the TaskGroup block ends normally.
ServeReturn(p) ==
    /\ dproc[p].pc = "serving"
    /\ \A l \in Listeners : dproc[p].servers[l] = "done"
    /\ dproc' = SetProc(dproc, p, [dproc[p] EXCEPT !.pc = "finally", !.cause = "returned"])
    /\ UNCHANGED <<pidfile, sockfile, ret, evars, avars>>

\* The task running start_server is cancelled while it serves.
Cancel(p) ==
    /\ dproc[p].pc = "serving"
    /\ Quiescent(p)
    /\ dproc' = SetProc(dproc, p,
           [dproc[p] EXCEPT !.pc = "finally", !.cause = "cancelled",
                            !.servers = [l \in Listeners |->
                                            IF Running(@[l]) THEN "cancelled" ELSE @[l]]])
    /\ UNCHANGED <<pidfile, sockfile, ret, evars, avars>>

\* finally: `await engine.shutdown_all()` is called.
CallShutdownAll(p) ==
    /\ dproc[p].pc = "finally"
    /\ dproc' = SetProc(dproc, p, [dproc[p] EXCEPT !.pc = "shutdown_all"])
    /\ UNCHANGED <<pidfile, sockfile>>
    /\ IF p = Owner THEN ShutdownAllBegin(EngineTask)
       ELSE UNCHANGED <<ret, evars, avars>>

\* engine.shutdown_all() has returned its report.
ShutdownAllReturns(p) ==
    /\ dproc[p].pc = "shutdown_all"
    /\ Quiescent(p)
    /\ dproc' = SetProc(dproc, p,
           [dproc[p] EXCEPT !.pc = "removing", !.cleanup = Append(@, "shutdown_all")])
    /\ UNCHANGED <<pidfile, sockfile, ret, evars, avars>>

\* Faulty variant: the socket file is removed before the PID file.
CleanupOrder_SocketFirst == <<"shutdown_all", "remove_socket", "remove_pid">>

\* The finally block of start_server, in the order of its statements.
CleanupOrder == <<"shutdown_all", "remove_pid", "remove_socket">>

NextCleanup(proc) == CleanupOrder[Len(proc.cleanup) + 1]

\* finally: remove_pid_file, remove_socket_file; after the last statement
\* the process exits.
Remove(p) ==
    /\ dproc[p].pc = "removing"
    /\ LET step == NextCleanup(dproc[p])
           log == Append(dproc[p].cleanup, step)
       IN /\ pidfile' = IF step = "remove_pid" THEN remove_pid_file(pidfile) ELSE pidfile
          /\ sockfile' = IF step = "remove_socket" THEN remove_socket_file(sockfile) ELSE sockfile
          /\ dproc' = SetProc(dproc, p,
                 [dproc[p] EXCEPT !.cleanup = log,
                                  !.pc = IF Len(log) = Len(CleanupOrder) THEN "exited" ELSE @])
    /\ UNCHANGED <<ret, evars, avars>>

\* A server of p accepts connections: it listens and was not told to exit.
Accepting(p) ==
    /\ dproc[p].pc = "serving"
    /\ \E l \in Listeners : dproc[p].servers[l] = "listening" /\ ~dproc[p].should_exit[l]

\* POST /agents arrives at the serving daemon; the route awaits the spawn.
SpawnRequest(cfg) == Accepting(Owner) /\ SpawnBegin(EngineTask, cfg)
SpawnResponse == dproc[Owner].pc = "serving" /\ SpawnFinish(EngineTask)

\* The awaits of engine.shutdown_all() inside the finally block.
ShutdownAllAwait == dproc[Owner].pc = "shutdown_all" /\ ShutdownAllStep(EngineTask)

\* One step of daemon process p.
DaemonStep(p) ==
    \/ \E port \in Ports : Start(p, port)
    \/ Prepare(p)
    \/ WritePid(p)
    \/ \E l \in Listeners : Bind(p, l)
    \/ \E l \in Listeners : ListenerFail(p, l)
    \/ Signal(p)
    \/ \E l \in Listeners : ListenerExit(p, l)
    \/ ServeReturn(p)
    \/ Cancel(p)
    \/ CallShutdownAll(p)
    \/ ShutdownAllReturns(p)
    \/ Remove(p)

InitDaemon(D) ==
    /\ InitEngine
    /\ InitNoAgent
    /\ pidfile \in PidFiles
    /\ sockfile \in SockFiles
    /\ dproc = [p \in D |-> NoProc]

\* One daemon serving spawn requests until it is stopped.
NextDaemon ==
    \/ Status
    \/ DaemonStep(Owner)
    \/ \E cfg \in AgentConfig : SpawnRequest(cfg)
    \/ SpawnResponse
    \/ ShutdownAllAwait
SpecDaemon == InitDaemon({Owner}) /\ [][NextDaemon]_vars

\* The event loop runs every task that can run, uvicorn servers told to
\* exit do exit, and each agent's shutdown returns.
FairDaemon ==
    /\ WF_vars(SpawnResponse)
    /\ WF_vars(\E l \in Listeners : ListenerExit(Owner, l))
    /\ WF_vars(ServeReturn(Owner))
    /\ WF_vars(CallShutdownAll(Owner))
    /\ WF_vars(ShutdownAllAwait)
    /\ WF_vars(ShutdownAllReturns(Owner))
    /\ WF_vars(Remove(Owner))
SpecDaemonFair == SpecDaemon /\ FairDaemon

\* `serve` run by separate processes that share one PID file path.
NextStarts ==
    \/ Status
    \/ \E p \in Daemons : DaemonStep(p)
SpecStarts == InitDaemon(Daemons) /\ [][NextStarts]_vars

\* ------------------------------------- server/routes/agents.py get_history
MaxLimit == 5          \* the largest `limit` query parameter drawn

\* The `limit` query parameter: absent (None) or an integer.
NoLimit == <<>>
Limit(k) == <<k>>
Limits == {NoLimit} \cup {Limit(k) : k \in 0..MaxLimit}

Min(a, b) == IF a < b THEN a ELSE b
Max(a, b) == IF a > b THEN a ELSE b

\* Python `s[start:]`: a negative start counts from the end, and both are
\* clamped to the sequence.
SliceFrom(s, start) ==
    LET first == IF start < 0 THEN Max(start + Len(s), 0) ELSE Min(start, Len(s))
    IN SubSeq(s, first + 1, Len(s))

\* get_history route: `history[-limit:]` when a limit is given.
Truncate(history, limit) ==
    IF limit = NoLimit THEN history ELSE SliceFrom(history, 0 - limit[1])

\* _message_to_out: the MessageOut of a Message (no recipients).
message_to_out(m) ==
    [sender |-> m.sender, content |-> m.content, message_type |-> m.message_type]

MessageResponse(ms) == [i \in 1..Len(ms) |-> message_to_out(ms[i])]

\* GET /agents/{name}/history?limit=...
HistoryRoute(t, name, limit) ==
    /\ UNCHANGED <<avars, dvars>>
    /\ CanStart(t)
    /\ ret' = Result("history", name, "200",
                     [limit |-> limit,
                      messages |-> MessageResponse(
                          Truncate(get_history(histories, name).value, limit))])
    /\ histories' = HistoriesAfterGet(histories, name)
    /\ UNCHANGED <<REGISTRY, agents, configs, agentObj, pc, frame>>

\* The requests of one client about one agent, answered one after another.
NextRoute ==
    \/ Step(1, OneName)
    \/ \E n \in OneName, limit \in Limits : HistoryRoute(1, n, limit)
SpecRoute == Init /\ [][NextRoute]_vars

\* ------------------------------------------------- providers/registry.py
\* The objects the callers register: Provider instances, and a factory.
Registrable == {ProviderInstance("P"), ProviderInstance("Q"), ProviderFactory("F")}

\* The argument lists get_provider is called with: the name alone, as
\* AgentRegistry.spawn calls it, or the name and a config.
ArgLists == {<<n>> : n \in ProviderNames} \cup {<<n, "config">> : n \in ProviderNames}

Error(cls, about) == [kind |-> cls, id |-> about]

\* Calling the registered object with the config: a factory builds a new
\* provider, a Provider instance is not callable.
Call(obj) ==
    IF obj.kind = "factory" THEN [status |-> "ok", value |-> ProviderInstance("new")]
    ELSE [status |-> "TypeError", value |-> Error("TypeError", obj.id)]

\* get_provider(name, config): binding the arguments fails without a
\* config; KeyError naming an unregistered name; else `_REGISTRY[name](config)`.
get_provider(reg, args) ==
    IF Len(args) # 2
    THEN [status |-> "TypeError", value |-> Error("TypeError", "config")]
    ELSE IF args[1] \notin DOMAIN reg
    THEN [status |-> "KeyError", value |-> Error("KeyError", args[1])]
    ELSE Call(reg[args[1]])

RegisterProvider(name, p) ==
    /\ REGISTRY' = register_provider(REGISTRY, name, p)
    /\ ret' = Result("register_provider", name, "ok", p)
    /\ UNCHANGED <<agents, configs, histories, agentObj, pc, frame, avars, dvars>>

GetProvider(args) ==
    /\ ret' = Result("get_provider", args[1], get_provider(REGISTRY, args).status,
                     get_provider(REGISTRY, args).value)
    /\ UNCHANGED <<evars, avars, dvars>>

ListProviders ==
    /\ ret' = Result("list_providers", None, "ok", list_providers(REGISTRY))
    /\ UNCHANGED <<evars, avars, dvars>>

\* The registry module used on its own, as its tests use it.
NextProviders ==
    \/ \E n \in ProviderNames, p \in Registrable : RegisterProvider(n, p)
    \/ \E args \in ArgLists : GetProvider(args)
    \/ ListProviders
SpecProviders == Init /\ [][NextProviders]_vars

\* --------------------------------------- registry operations, interleaved
\* The spawn requests drawn here: an SDK agent and an OpenAI-compatible one
\* (whose shutdown can raise) under either name.
RegistryConfigs ==
    {cfg \in AgentConfig :
        \/ cfg.provider = "sdk"
        \/ cfg.provider = "openai" /\ cfg.model = "m" /\ cfg.api_key = "k"}

\* One step of task t among spawn, shutdown_agent and shutdown_all.
RegistryStep(t) ==
    \/ \E cfg \in RegistryConfigs : SpawnBegin(t, cfg)
    \/ SpawnFinish(t)
    \/ \E n \in Names : ShutdownBegin(t, n)
    \/ ShutdownFinish(t)
    \/ ShutdownAllBegin(t) /\ UNCHANGED dvars
    \/ ShutdownAllStep(t)

\* Two tasks working on two names.
NextRegistry == \E t \in Tasks : RegistryStep(t)
SpecRegistry == Init /\ [][NextRegistry]_vars

\* ------------------------------------------- POST /agents/{name}/task
\* providers/errors.py: ProviderError and its subclasses.
IsProviderError(err) ==
    err \in {"ProviderError", "ProviderAuthError", "ProviderAPIError", "ProviderTimeoutError"}

\* run_task: the HTTP status of an exception: ProviderError is answered 502,
\* KeyError 400, and anything else leaves the route uncaught (500).
TaskStatus(err) ==
    IF IsProviderError(err) THEN "502" ELSE IF err = "KeyError" THEN "400" ELSE "500"

TaskResult(name, err) == Result("run_task", name, TaskStatus(err), err)

\* run_task up to spawn's `await provider.create_agent(config)`.
RunTaskBegin(t, cfg, prompt) ==
    /\ UNCHANGED <<avars, dvars>>
    /\ CanStart(t)
    /\ Cardinality(Live(agentObj)) + Cardinality({u \in Tasks : pc[u] = "spawn"}) < MaxAgents
    /\ REGISTRY' = LoadProvider(REGISTRY, cfg.provider)
    /\ IF NameTaken(agents, cfg.name)
       THEN /\ ret' = TaskResult(cfg.name, "AgentAlreadyExistsError")
            /\ UNCHANGED <<pc, frame>>
       ELSE IF ~ProviderRegistered(REGISTRY', cfg.provider)
       THEN /\ ret' = TaskResult(cfg.name, "KeyError")
            /\ UNCHANGED <<pc, frame>>
       ELSE /\ pc' = [pc EXCEPT ![t] = "task_spawn"]
            /\ frame' = [frame EXCEPT ![t] = [NoFrame EXCEPT !.name = cfg.name, !.cfg = cfg,
                                                            !.content = prompt]]
            /\ ret' = NoResult
    /\ UNCHANGED <<agents, configs, histories, agentObj>>

\* create_agent returns or raises.  On success engine.spawn_agent stores the
\* agent and resets the history, and engine.send_message runs up to the first
\* await of handle_message: the human Message is recorded.
RunTaskSpawned(t) ==
    /\ UNCHANGED <<avars, dvars>>
    /\ pc[t] = "task_spawn"
    /\ LET cfg == frame[t].cfg
           outcome == CreateAgent(cfg)
           a == FreeSlot(agentObj)
       IN /\ agents' = RegistryAfterSpawn(agents, cfg.name, a, outcome)
          /\ configs' = RegistryAfterSpawn(configs, cfg.name, cfg, outcome)
          /\ IF outcome # "ok"
             THEN /\ ret' = TaskResult(cfg.name, outcome)
                  /\ pc' = [pc EXCEPT ![t] = "idle"]
                  /\ frame' = [frame EXCEPT ![t] = NoFrame]
                  /\ UNCHANGED <<histories, agentObj>>
             ELSE /\ histories' = [HistoriesAfterSpawn(histories, cfg.name) EXCEPT
                                      ![cfg.name] = Append(@, HumanMessage(cfg.name,
                                                                       frame[t].content))]
                  /\ agentObj' = SetState([agentObj EXCEPT ![a] = NewAgent(cfg)], a, "processing")
                  /\ pc' = [pc EXCEPT ![t] = "task_send"]
                  /\ frame' = [frame EXCEPT ![t].agent = a]
                  /\ ret' = NoResult
    /\ UNCHANGED REGISTRY

\* The response stream is exhausted: the responses are recorded, and
\* engine.shutdown_agent runs up to `await agent.shutdown()`.
RunTaskSent(t) ==
    /\ UNCHANGED <<avars, dvars>>
    /\ pc[t] = "task_send"
    /\ LET a == frame[t].agent
           name == frame[t].name
       IN \E responses \in TurnResponses(agentObj[a]) :
            LET answered == SetState(agentObj, a,
                               StateAfterTurn(agentObj[a].agent_type, agentObj[a].state, None))
            IN /\ histories' = [histories EXCEPT ![name] = HistoryAfterTurn(@, responses)]
               /\ IF ~Has(agents, name)
                  THEN /\ ret' = TaskResult(name, "AgentNotFoundError")
                       /\ pc' = [pc EXCEPT ![t] = "idle"]
                       /\ frame' = [frame EXCEPT ![t] = NoFrame]
                       /\ agentObj' = Collect(answered, agents, frame')
                  ELSE /\ CanInvoke(agentObj, Get(agents, name))
                       /\ pc' = [pc EXCEPT ![t] = "task_shutdown"]
                       /\ frame' = [frame EXCEPT ![t].agent = Get(agents, name),
                                                 ![t].responses = Returned(responses)]
                       /\ agentObj' = Collect(Invoked(answered, Get(agents, name)),
                                              agents, frame')
                       /\ ret' = NoResult
    /\ UNCHANGED <<REGISTRY, agents, configs>>

\* The response stream raises: send_message propagates the error, the
\* route's except clauses answer it and shutdown_agent is never reached.
RunTaskSendFail(t) ==
    /\ UNCHANGED <<avars, dvars>>
    /\ pc[t] = "task_send"
    /\ frame' = [frame EXCEPT ![t] = NoFrame]
    /\ LET a == frame[t].agent
           name == frame[t].name
       IN \E err \in BackendErrors(agentObj[a].agent_type) :
            /\ agentObj' = Collect(SetState(agentObj, a,
                              StateAfterTurn(agentObj[a].agent_type, agentObj[a].state, err)),
                              agents, frame')
            /\ histories' = [histories EXCEPT ![name] = HistoryAfterFailedTurn(@, <<>>)]
            /\ ret' = TaskResult(name, MapError(agentObj[a].agent_type, err))
    /\ pc' = [pc EXCEPT ![t] = "idle"]
    /\ UNCHANGED <<REGISTRY, agents, configs>>

\* agent.shutdown() returns or raises, the `finally` block of
\* registry.shutdown_agent deletes both entries, and the route answers with
\* the responses or with the error.
RunTaskShutdown(t) ==
    /\ UNCHANGED <<avars, dvars>>
    /\ pc[t] = "task_shutdown"
    /\ frame' = [frame EXCEPT ![t] = NoFrame]
    /\ LET a == frame[t].agent
           name == frame[t].name
       IN \E outcome \in ShutdownOutcomes(agentObj[a].agent_type) :
            /\ IF ~Has(agents, name)
               THEN /\ ret' = TaskResult(name, "KeyError")
                    /\ UNCHANGED <<agents, configs>>
               ELSE /\ agents' = RegistryAfterShutdown(agents, name, outcome)
                    /\ IF ~Has(configs, name)
                       THEN /\ ret' = TaskResult(name, "KeyError")
                            /\ UNCHANGED configs
                       ELSE /\ configs' = ConfigsAfterShutdown(configs, name, outcome)
                            /\ ret' = IF outcome = "ok"
                                      THEN Result("run_task", name, "200",
                                                  MessageResponse(frame[t].responses))
                                      ELSE TaskResult(name, "AgentShutdownError")
            /\ agentObj' = Collect(SetState(agentObj, a,
                                      StateAfterShutdown(agentObj[a].state, outcome)),
                                   agents', frame')
            /\ histories' = HistoriesAfterShutdown(histories, {name})
    /\ pc' = [pc EXCEPT ![t] = "idle"]
    /\ UNCHANGED REGISTRY

\* The requests of one client, task requests among them, one after another.
NextTask ==
    \/ Step(1, OneName)
    \/ \E cfg \in {c \in AgentConfig : c.name \in OneName}, prompt \in Contents :
           RunTaskBegin(1, cfg, prompt)
    \/ RunTaskSpawned(1)
    \/ RunTaskSent(1)
    \/ RunTaskSendFail(1)
    \/ RunTaskShutdown(1)
SpecTask == Init /\ [][NextTask]_vars

TypeOK ==
    /\ DOMAIN REGISTRY \subseteq ProviderNames
    /\ KeySet(agents) \subseteq Names
    /\ DOMAIN histories \subseteq Names
    /\ \A t \in Tasks : pc[t] \in {"idle", "spawn", "send", "shutdown", "shutdown_all",
                                "task_spawn", "task_send", "task_shutdown"}

\* ------------------------------------------------------------ properties
\* C1: a spawn made while its name is registered fails with
\* AgentAlreadyExistsError, and the registry keeps the agent and the config
\* it held under that name (those of the spawn that succeeded first).
C1_DuplicateSpawnRejected ==
    [][\A t \in Tasks :
         (pc[t] = "idle" /\ (pc'[t] = "spawn" \/ ret'.op = "spawn")) =>
             \A cfg \in AgentConfig :
                 (Has(agents, cfg.name) /\ SpawnBegin(t, cfg)) =>
                     /\ ret' = Result("spawn", cfg.name, "AgentAlreadyExistsError", <<>>)
                     /\ pc'[t] = "idle"
                     /\ agents' = agents
                     /\ configs' = configs
                     /\ agentObj' = agentObj]_vars

C1_Witness ==
    /\ ret.op = "spawn"
    /\ ret.status = "AgentAlreadyExistsError"
    /\ Has(agents, ret.name)
    /\ Has(configs, ret.name)
    /\ agentObj[Get(agents, ret.name)].name = ret.name

\* C2: the name that spawn's check found free is still free when spawn
\* inserts the agent, so of two concurrent spawns of one name at most one
\* succeeds.
C2_CheckHoldsAtInsert ==
    [][\A t \in Tasks :
         (pc[t] = "spawn" /\ pc'[t] = "idle" /\ ret'.status = "ok") =>
             ~Has(agents, frame[t].name)]_vars

\* The spawn requests whose provider has no package to import: the only
\* ones get_provider can find unregistered.
NoPackageConfigs == {c \in AgentConfig : c.provider \notin ProviderPackages}

\* C3: a spawn that fails because the provider is not registered (KeyError)
\* or because create_agent raises returns that very error and leaves the
\* registry as it was: no agent and no config under the name.
C3_FailedSpawnLeavesRegistry ==
    [][\A t \in Tasks :
         /\ (pc[t] = "idle" /\ (pc'[t] = "spawn" \/ (pc' = pc /\ ret'.op = "spawn"))) =>
                  /\ agents' = agents
                  /\ configs' = configs
         /\ \A cfg \in NoPackageConfigs :
              (/\ pc[t] = "idle"
               /\ ~Has(agents, cfg.name)
               /\ ~ProviderRegistered(LoadProvider(REGISTRY, cfg.provider), cfg.provider)
               /\ SpawnBegin(t, cfg)) =>
                  /\ ret' = Result("spawn", cfg.name, "KeyError", <<>>)
                  /\ pc'[t] = "idle"
                  /\ ~Has(agents', cfg.name)
                  /\ ~Has(configs', cfg.name)
         /\ (SpawnFinish(t) /\ CreateAgent(frame[t].cfg) # "ok") =>
                  /\ ret' = Result("spawn", frame[t].name, CreateAgent(frame[t].cfg), <<>>)
                  /\ agents' = agents
                  /\ configs' = configs
                  /\ ~Has(agents', frame[t].name)
                  /\ ~Has(configs', frame[t].name)]_vars

C3_Witness ==
    /\ ret.op = "spawn"
    /\ ret.status \in {"ProviderAuthError", "ProviderError"}
    /\ ~Has(agents, ret.name)
    /\ ~Has(configs, ret.name)
    /\ agents # <<>>

\* C4: shutdown_agent of a registered name removes the agent and the config
\* under that name, whether the agent's shutdown returned or raised, and
\* then returns or raises accordingly; on an unregistered name it fails with
\* AgentNotFoundError and changes nothing.
C4_ShutdownAgentRemoves ==
    [][\A t \in Tasks :
         /\ \A n \in Names :
              (pc[t] = "idle" /\ ShutdownBegin(t, n)) =>
                  IF Has(agents, n)
                  THEN /\ pc'[t] = "shutdown"
                       /\ frame'[t].name = n
                       /\ ret' = NoResult
                  ELSE /\ ret' = Result("shutdown_agent", n, "AgentNotFoundError", <<>>)
                       /\ pc'[t] = "idle"
                       /\ agents' = agents
                       /\ configs' = configs
                       /\ agentObj' = agentObj
                       /\ histories' = histories
         /\ ShutdownFinish(t) =>
              /\ ~Has(agents', frame[t].name)
              /\ ~Has(configs', frame[t].name)
              /\ agents' = Del(agents, frame[t].name)
              /\ configs' = Del(configs, frame[t].name)
              /\ ret'.op = "shutdown_agent"
              /\ ret'.name = frame[t].name
              /\ ret'.status \in {"ok", "AgentShutdownError"}
              /\ agentObj[frame[t].agent].agent_type = "sdk" => ret'.status = "ok"
              /\ pc'[t] = "idle"]_vars

C4_Witness ==
    /\ ret.op = "shutdown_agent"
    /\ ret.status = "AgentShutdownError"
    /\ ~Has(agents, ret.name)
    /\ ~Has(configs, ret.name)
    /\ agents # <<>>

\* The report names exactly the set S, each name once, in one of its parts.
Covers(report, S) ==
    /\ SeqSet(report.succeeded) \cup DOMAIN report.failed = S
    /\ SeqSet(report.succeeded) \cap DOMAIN report.failed = {}
    /\ Len(report.succeeded) = Cardinality(SeqSet(report.succeeded))
    /\ \A n \in DOMAIN report.failed : report.failed[n] = ShutdownErrorText

\* C5: shutdown_all run alone visits every name registered at its start, in
\* order, puts each in exactly one of succeeded (shutdown returned) or
\* failed (shutdown raised, with the error text), goes on after a failure,
\* and returns with both registry maps empty.
C5_ShutdownAllReport ==
    [][\A t \in Tasks :
         /\ (pc[t] = "idle" /\ ShutdownAllBegin(t)) =>
              IF agents = <<>>
              THEN /\ ret' = Result("shutdown_all", None, "ok", ShutdownReport(<<>>, <<>>))
                   /\ agents' = <<>>
                   /\ configs' = <<>>
              ELSE /\ pc'[t] = "shutdown_all"
                   /\ frame'[t].names = Keys(agents)
                   /\ frame'[t].i = 1
                   /\ frame'[t].name = Keys(agents)[1]
                   /\ frame'[t].report = ShutdownReport(<<>>, <<>>)
                   /\ agents' = agents
                   /\ configs' = configs
         /\ ShutdownAllStep(t) =>
              /\ ret'.status = "ok"
              /\ LET f == frame[t]
                     report == IF pc'[t] = "idle" THEN ret'.value ELSE frame'[t].report
                 IN /\ Covers(f.report, {f.names[j] : j \in 1..(f.i - 1)})
                    /\ Covers(report, {f.names[j] : j \in 1..f.i})
                    /\ \/ report.succeeded = Append(f.report.succeeded, f.name)
                       \/ /\ report.succeeded = f.report.succeeded
                          /\ agentObj[f.agent].agent_type # "sdk"
                    /\ IF f.i < Len(f.names)
                       THEN /\ pc'[t] = "shutdown_all"
                            /\ frame'[t].names = f.names
                            /\ frame'[t].i = f.i + 1
                            /\ frame'[t].name = f.names[f.i + 1]
                            /\ agents' = agents
                            /\ configs' = configs
                       ELSE /\ pc'[t] = "idle"
                            /\ ret'.op = "shutdown_all"
                            /\ agents' = <<>>
                            /\ configs' = <<>>]_vars

C5_Witness ==
    /\ ret.op = "shutdown_all"
    /\ ret.status = "ok"
    /\ Len(ret.value.succeeded) = 1
    /\ Cardinality(DOMAIN ret.value.failed) = 1
    /\ agents = <<>>
    /\ configs = <<>>

\* C6: no step of engine shutdown_agent or shutdown_all changes what
\* get_history returns for any name.
C6_ShutdownKeepsHistory ==
    [][\A t \in Tasks :
         (\/ /\ pc[t] = "idle"
             /\ ret'.op = "shutdown_agent" \/ pc'[t] = "shutdown"
             /\ \E n \in Names : ShutdownBegin(t, n)
          \/ ShutdownFinish(t)
          \/ /\ pc[t] = "idle"
             /\ ret'.op = "shutdown_all" \/ pc'[t] = "shutdown_all"
             /\ ShutdownAllBegin(t)
          \/ ShutdownAllStep(t)) =>
             \A n \in Names : get_history(histories', n) = get_history(histories, n)]_vars

C6_Witness ==
    /\ ret.op = "shutdown_agent"
    /\ ret.status = "ok"
    /\ ~Has(agents, ret.name)
    /\ get_history(histories, ret.name).value # <<>>

\* C7: no engine operation discards or shortens a history: every name that
\* has a history keeps it, and its history before a step is a prefix of its
\* history after the step.
C7_HistoryOnlyGrows ==
    [][\A n \in DOMAIN histories :
         /\ n \in DOMAIN histories'
         /\ IsPrefix(histories[n], histories'[n])]_vars

\* C8: a send_message on a registered agent records one human Message with
\* the content sent; when it completes it returns the Messages of the
\* agent's turn, in order, and the history is the one before the call, the
\* human Message, then exactly those Messages (length 2, senders human and
\* the agent's name, for a first turn with one response).
C8_SendRecordsTurn ==
    [][\A t \in Tasks :
         /\ \A n \in Names, c \in Contents :
              (SendBegin(t, n, c) /\ pc'[t] = "send") =>
                  /\ Has(agents, n)
                  /\ histories' = [histories EXCEPT ![n] = Append(@, HumanMessage(n, c))]
                  /\ frame'[t].content = c
         /\ SendFinish(t) =>
              LET n == frame[t].name
                  h == histories[n]
                  r == ret'.value
              IN /\ ret'.op = "send_message"
                 /\ ret'.name = n
                 /\ ret'.status = "ok"
                 /\ r \in TurnResponses(agentObj[frame[t].agent])
                 /\ h # <<>>
                 /\ h[Len(h)] = HumanMessage(n, frame[t].content)
                 /\ histories' = [histories EXCEPT ![n] = h \o r]
                 /\ (Len(h) = 1 /\ Len(r) = 1) =>
                        /\ Len(histories'[n]) = 2
                        /\ histories'[n][1].sender = "human"
                        /\ histories'[n][2].sender = n]_vars

C8_Witness ==
    /\ ret.op = "send_message"
    /\ ret.status = "ok"
    /\ Len(ret.value) = 2
    /\ Len(histories[ret.name]) = 3
    /\ SubSeq(histories[ret.name], 2, 3) = ret.value
    /\ histories[ret.name][1].sender = "human"

\* An agent registered under n passes the supplied filters.
Qualifies(n, state, provider) ==
    /\ state # None => agentObj[Get(agents, n)].state = state
    /\ provider # None => Get(configs, n).provider = provider

\* C9: list_agents returns one AgentInfo for each registered agent whose
\* current state equals the state filter (if given) and whose configured
\* provider equals the provider filter (if given), and nothing else; each
\* AgentInfo carries the agent's current state.
C9_ListAgentsFilters ==
    [][\A t \in Tasks, st \in StateFilters, pr \in ProviderFilters :
         (ret'.op = "list_agents" /\ ListAgents(t, st, pr)) =>
             LET r == ret'.value
             IN /\ ret'.status = "ok"
                /\ \A n \in KeySet(agents) :
                     Cardinality({i \in 1..Len(r) : r[i].name = n})
                         = IF Qualifies(n, st, pr) THEN 1 ELSE 0
                /\ \A i \in 1..Len(r) :
                     /\ r[i].name \in KeySet(agents)
                     /\ r[i] = AgentInfo(r[i].name,
                                         agentObj[Get(agents, r[i].name)].agent_type,
                                         Get(configs, r[i].name).provider,
                                         agentObj[Get(agents, r[i].name)].state)
                /\ agents' = agents
                /\ configs' = configs
                /\ agentObj' = agentObj]_vars

C9_Witness ==
    /\ ret.op = "list_agents"
    /\ Len(agents) = 2
    /\ Len(ret.value) = 1
    /\ \E i \in 1..2 : agentObj[agents[i].v].state = "failed"
    /\ \E i \in 1..2 : Get(configs, agents[i].k).provider = "openai"

\* C10: get_history never fails; it returns the name's history, the empty
\* list when the name has none, and changes neither the registry nor the
\* history map (no entry is created).
C10_GetHistoryTotal ==
    [][\A t \in Tasks, n \in Names :
         (ret'.op = "get_history" /\ GetHistory(t, n)) =>
             /\ ret'.status = "ok"
             /\ ret'.value = IF n \in DOMAIN histories THEN histories[n] ELSE <<>>
             /\ histories' = histories
             /\ DOMAIN histories' = DOMAIN histories
             /\ agents' = agents
             /\ configs' = configs
             /\ agentObj' = agentObj]_vars

C10_Witness ==
    /\ ret.op = "get_history"
    /\ ret.status = "ok"
    /\ ret.name \notin DOMAIN histories
    /\ ret.value = <<>>

\* C11: once shutdown has set an agent's state to terminated, the state never
\* changes again, whether a handle_message turn of the agent is in flight or
\* is started later.
C11_TerminatedAbsorbing ==
    [][agent.state = "terminated" => agent'.state = "terminated"]_vars

\* C12: from state failed the only state change is to terminated by
\* shutdown; a later handle_message on the failed agent does not move it to
\* processing or idle.
C12_FailedNeverRecovered ==
    [][agent.state = "failed" => agent'.state \in {"failed", "terminated"}]_vars

\* C13: a turn of either backend sets the state to processing before any
\* response Message is produced, and once the turn has ended, by exhaustion
\* or by any raised error, the state is idle or failed.
C13_TurnBracketsProcessing ==
    [][/\ (turn.pc = "idle" /\ turn'.pc # "idle") =>
              (agent'.state = "processing" /\ turn'.out = <<>> /\ ret' = NoResult)
       /\ (turn.pc # "idle" /\ turn'.pc = "idle") =>
              agent'.state \in {"idle", "failed"}]_vars

\* A turn of the agent ends in this step by raising.
TurnRaised == turn.pc # "idle" /\ turn'.pc = "idle" /\ ret'.status # "ok"

C15_ChatErrorMapping ==
    [][(agent.agent_type = "api" /\ TurnRaised) =>
          LET exc == ret'.value.cause
          IN /\ exc.cls \in {"AuthenticationError", "PermissionDeniedError"} =>
                    ret'.status = "ProviderAuthError"
             /\ exc.cls = "RateLimitError" =>
                    ret'.status = "ProviderAPIError" /\ ret'.value.status_code = "429"
             /\ exc.cls = "InternalServerError" =>
                    ret'.status = "ProviderAPIError" /\ ret'.value.status_code = exc.code
             /\ exc.cls = "APITimeoutError" => ret'.status = "ProviderTimeoutError"
             /\ exc.cls = "APIConnectionError" => ret'.status = "ProviderError"]_vars

\* A chat turn has ended with the timeout error.
C15_Witness ==
    /\ agent.agent_type = "api" /\ turn.pc = "idle"
    /\ ret.op = "handle_message" /\ ret.status = "ProviderTimeoutError"
    /\ ret.value.cause.cls = "APITimeoutError"

ProviderErrors ==
    {"ProviderAuthError", "ProviderAPIError", "ProviderTimeoutError", "ProviderError"}

\* C16 as stated: when a turn of the chat agent ends with an authentication,
\* API-status, timeout or connection error, the agent's state is failed.
C16_ChatErrorFails ==
    [][(agent.agent_type = "api" /\ TurnRaised /\ ret'.status \in ProviderErrors) =>
          agent'.state = "failed"]_vars

\* C16 as the code has it: when a turn of the chat agent ends with an
\* authentication, API-status, timeout or connection error, the agent's
\* state is idle.
C16_ChatErrorIdles ==
    [][(agent.agent_type = "api" /\ TurnRaised /\ ret'.status \in ProviderErrors) =>
          agent'.state = "idle"]_vars

\* A chat turn has ended with the authentication error.
C16_Witness ==
    /\ agent.agent_type = "api" /\ turn.pc = "idle" /\ agent.state = "idle"
    /\ ret.op = "handle_message" /\ ret.status = "ProviderAuthError"

\* C17: after any turn of the chat agent has ended, normally or by raising a
\* mapped backend error, the agent's state is idle.
C17_ChatIdleAfterTurn ==
    [][(agent.agent_type = "api" /\ turn.pc # "idle" /\ turn'.pc = "idle"
           /\ ret'.status \in ProviderErrors \cup {"ok"}) =>
          agent'.state = "idle"]_vars

\* A chat turn has completed normally, its assistant entry appended.
C17_Witness ==
    /\ agent.agent_type = "api" /\ turn.pc = "idle" /\ agent.state = "idle"
    /\ ret.op = "handle_message" /\ ret.status = "ok"
    /\ agent.history[Len(agent.history)].role = "assistant"

\* What a sequence of frames says, read off the frames themselves.
RECURSIVE Concat(_)
Concat(ss) == IF ss = <<>> THEN <<>> ELSE Head(ss) \o Concat(Tail(ss))
Deltas(frames) == SelectSeq(frames, LAMBDA c : c.choices)
TextOf(frames) == Concat([i \in 1..Len(Deltas(frames)) |-> Deltas(frames)[i].content])
FragmentsOf(frames) ==
    Concat([i \in 1..Len(Deltas(frames)) |-> Deltas(frames)[i].tool_calls])
FragmentsAt(frames, k) == SelectSeq(FragmentsOf(frames), LAMBDA f : f.index = k)
IndicesOf(frames) == {FragmentsOf(frames)[i].index : i \in 1..Len(FragmentsOf(frames))}
NameAt(frames, k) ==
    Concat([i \in 1..Len(FragmentsAt(frames, k)) |-> FragmentsAt(frames, k)[i].name])
ArgumentsAt(frames, k) ==
    Concat([i \in 1..Len(FragmentsAt(frames, k)) |-> FragmentsAt(frames, k)[i].arguments])
IdsAt(frames, k) ==
    SelectSeq([i \in 1..Len(FragmentsAt(frames, k)) |-> FragmentsAt(frames, k)[i].id],
              LAMBDA id : id # <<>>)
LastIdAt(frames, k) ==
    IF IdsAt(frames, k) = <<>> THEN <<>> ELSE IdsAt(frames, k)[Len(IdsAt(frames, k))]

\* The tool-call Messages of out, which start after its first `skip`
\* Messages: one per index of the frames, in ascending index order, each
\* with the name and the arguments concatenated over the index's fragments.
ToolMessagesOf(out, skip, frames) ==
    /\ Len(out) = skip + Cardinality(IndicesOf(frames))
    /\ \A k \in IndicesOf(frames) :
         LET msg == out[skip + 1 + Cardinality({j \in IndicesOf(frames) : j < k})]
         IN /\ msg.message_type = "system"
            /\ msg.metadata.tool_name = NameAt(frames, k)
            /\ msg.metadata.tool_arguments = ArgumentsAt(frames, k)

\* A chat turn completes in this step.
StreamEnds == agent.agent_type = "api" /\ turn.pc = "stream" /\ turn'.pc = "idle"
                 /\ ret'.status = "ok"

\* C18 as stated: for every sequence of frames the output is one chat Message
\* holding the concatenated text if that text is non-empty, then one system
\* Message per tool-call index in ascending order, carrying the name, the
\* arguments and the id accumulated over the index's fragments.
C18_StreamTranslation_NonEmpty ==
    [][StreamEnds =>
          LET out == ret'.value
              text == TextOf(turn.frames)
              skip == IF text # <<>> THEN 1 ELSE 0
          IN /\ ToolMessagesOf(out, skip, turn.frames)
             /\ text # <<>> => out[1].message_type = "chat" /\ out[1].content = text
             /\ \A k \in IndicesOf(turn.frames) :
                  out[skip + 1 + Cardinality({j \in IndicesOf(turn.frames) : j < k})]
                      .metadata.tool_call_id = Concat(IdsAt(turn.frames, k))]_vars

\* C18 as the code has it: the chat Message is there if the concatenated text
\* is not empty and not all whitespace, and the id a tool-call Message
\* carries is the last non-empty id received for its index; the rest as
\* stated.
C18_StreamTranslation ==
    [][StreamEnds =>
          LET out == ret'.value
              text == TextOf(turn.frames)
              skip == IF ~Blank(text) THEN 1 ELSE 0
          IN /\ ToolMessagesOf(out, skip, turn.frames)
             /\ ~Blank(text) => out[1].message_type = "chat" /\ out[1].content = text
             /\ \A k \in IndicesOf(turn.frames) :
                  out[skip + 1 + Cardinality({j \in IndicesOf(turn.frames) : j < k})]
                      .metadata.tool_call_id = LastIdAt(turn.frames, k)]_vars

\* A chat turn has yielded a chat Message and the Messages of two tool calls.
C18_Witness ==
    /\ agent.agent_type = "api" /\ turn.pc = "idle"
    /\ ret.op = "handle_message" /\ ret.status = "ok"
    /\ Len(ret.value) = 3
    /\ ret.value[1].message_type = "chat"
    /\ ret.value[2].metadata.tool_name = <<"search">>
    /\ ret.value[3].metadata.tool_name = <<"read">>

\* C19: the stream text "Hello", then a tool-call fragment at index 0 with
\* name "search" and arguments '{"q":', then one at index 0 with arguments
\* '"hi"}' yields exactly a chat Message "Hello" and a system Message
\* "Using tool: search" with tool_name "search" and tool_arguments
\* '{"q":"hi"}' in its metadata.
C19_StreamScenario ==
    [][(StreamEnds /\ turn.frames = <<TextFrame, SearchFrame, ArgsFrame>>) =>
          LET out == ret'.value
          IN /\ Len(out) = 2
             /\ out[1].message_type = "chat"
             /\ out[1].content = <<"Hello">>
             /\ out[2].message_type = "system"
             /\ out[2].content = <<"Using tool: ", "search">>
             /\ out[2].metadata.tool_name = <<"search">>
             /\ out[2].metadata.tool_arguments = <<ArgHead, ArgTail>>]_vars

Roles(history) == [i \in 1..Len(history) |-> history[i].role]
Dialogue(history) == SelectSeq(Roles(history), LAMBDA role : role # "system")

\* C20: the chat agent's history is append-only; a system entry is only ever
\* the first entry; a turn appends its user entry when it starts, before the
\* backend call, and exactly one assistant entry when its stream has ended,
\* and nothing else changes the history; after n turns that all completed
\* the entries past the system prompt are n user and n assistant entries,
\* alternating.
C20_HistoryAppendOnly ==
    [][agent.agent_type = "api" =>
          /\ IsPrefix(agent.history, agent'.history)
          /\ \A i \in 2..Len(agent'.history) : agent'.history[i].role # "system"
          /\ IF turn.pc = "idle" /\ turn'.pc = "create"
             THEN /\ Len(agent'.history) = Len(agent.history) + 1
                  /\ agent'.history[Len(agent'.history)].role = "user"
             ELSE IF StreamEnds
             THEN /\ Len(agent'.history) = Len(agent.history) + 1
                  /\ agent'.history[Len(agent'.history)].role = "assistant"
                  /\ agent.history[Len(agent.history)].role = "user"
             ELSE agent'.history = agent.history
          /\ LET d == Dialogue(agent'.history)
             IN Len(d) = 2 * Turns(agent'.history) =>
                   \A i \in 1..Len(d) :
                      d[i] = IF i % 2 = 1 THEN "user" ELSE "assistant"]_vars

\* A chat agent built with a system prompt has completed two turns.
C20_Witness ==
    /\ agent.agent_type = "api" /\ turn.pc = "idle"
    /\ Roles(agent.history) = <<"system", "user", "assistant", "user", "assistant">>

\* C21: a client-mode SDK agent creates and connects its session in the first
\* handle_message and reuses it in every later turn: no second session is
\* created before a shutdown has disconnected the first, connect() is called
\* only on a session just created, and a turn calls query() once, when it
\* starts on an existing session or when its connect() has returned.
C21_SessionReused ==
    [][agent.mode = "client" =>
          /\ \A i, j \in 1..Len(session') :
               (i < j /\ session'[i] = "create" /\ session'[j] = "create") =>
                   \E k \in i..j : session'[k] = "disconnect"
          /\ \A i \in 1..Len(session') :
               session'[i] = "connect" => (i > 1 /\ session'[i - 1] = "create")
          /\ (turn'.pc = "query" /\ turn.pc # "query") <=>
                 /\ turn.pc \in {"idle", "connect"}
                 /\ Len(session') > Len(session)
                 /\ session'[Len(session')] = "query"
          /\ turn.pc = "receive" => turn'.pc \in {"receive", "idle"}
          /\ (turn.pc = "idle" /\ turn'.pc # "idle" /\ agent.client # None) =>
                 (turn'.pc = "query" /\ agent'.client = agent.client)]_vars

\* The second turn of a client-mode agent is receiving on the session the
\* first turn created and connected.
C21_Witness ==
    /\ agent.mode = "client" /\ agent.client = "connected"
    /\ turn.pc = "receive"
    /\ session = <<"create", "connect", "query", "query">>

\* C22: SDKAgent.shutdown never raises.  Holding a session it calls
\* disconnect() and awaits it; however it began and whatever disconnect()
\* did, it ends without an error, with no session held and the state
\* terminated, also when no session was ever created and when it is called
\* again.
C22_SDKShutdownNeverRaises ==
    [][agent.agent_type = "sdk" =>
          /\ (~stopping /\ ret'.op = "none" /\ turn' = turn /\ agent.client # None) =>
                 (stopping' /\ session' = Append(session, "disconnect"))
          /\ stopping' => agent'.client # None
          /\ ret'.op = "shutdown" =>
                 /\ ret'.status = "ok"
                 /\ ~stopping'
                 /\ agent'.state = "terminated"
                 /\ agent'.client = None]_vars

\* A client-mode agent has been shut down although disconnect() raised.
C22_Witness ==
    /\ agent.agent_type = "sdk" /\ agent.mode = "client"
    /\ ret.op = "shutdown" /\ ret.status = "ok" /\ ret.value = "raise"
    /\ agent.state = "terminated" /\ agent.client = None
    /\ session = <<"create", "connect", "query", "disconnect">>

\* C23: daemon singleton.  Whatever the interleaving of the start attempts
\* of separate processes sharing one PID file path, no two daemon processes
\* are past the already-running check and serving at the same time.
C23_SingleDaemon ==
    \A p, q \in Daemons :
        p # q => ~(dproc[p].pc = "serving" /\ dproc[q].pc = "serving")


\* A step in which is_daemon_running was called: by `serve --status`, or by
\* the start of a daemon process.
DaemonChecked ==
    \/ dproc' = dproc /\ ret'.op = "status"
    \/ \E p \in DOMAIN dproc : dproc[p].pc = "none" /\ dproc'[p].pc # "none"

\* The PID file holds the number of a process, and that process exists.
HoldsPid == pidfile.exists /\ pidfile.text \in {<<p>> : p \in Pids}
ProcessExists ==
    \/ pidfile.text = <<ForeignPid>>
    \/ \E p \in DOMAIN dproc :
          pidfile.text = <<p>> /\ dproc[p].pc \notin {"none", "refused", "exited"}

\* C24: is_daemon_running answers False and leaves things as they are when
\* the PID file is missing or holds no integer; when the recorded process
\* does not exist it removes the stale file and answers False; when the
\* process exists, also when it cannot be signalled, it answers True and
\* leaves the PID file in place.
C24_IsDaemonRunning ==
    [][DaemonChecked =>
          /\ ret'.op \in {"status", "is_daemon_running"}
          /\ IF ~HoldsPid THEN ret'.value = FALSE /\ pidfile' = pidfile
             ELSE IF ~ProcessExists THEN ret'.value = FALSE /\ ~pidfile'.exists
             ELSE ret'.value = TRUE /\ pidfile' = pidfile]_vars

\* The status check has answered True for a process of another user.
C24_Witness ==
    /\ ret.op = "status" /\ ret.value = TRUE
    /\ pidfile = [exists |-> TRUE, text |-> <<ForeignPid>>]
    /\ \A p \in DOMAIN dproc : dproc[p].pc = "refused"


\* The steps of the finally block that daemon process p takes in a step.
CleanupDone(p) == SubSeq(dproc'[p].cleanup, Len(dproc[p].cleanup) + 1, Len(dproc'[p].cleanup))

HistoryOf(name) == IF name \in DOMAIN histories THEN histories[name] ELSE <<>>

\* The MessageOut of the Messages h[from..Len(h)], in the order of h.
OutTail(h, from) ==
    [i \in 1..(Len(h) - from + 1) |->
        [sender |-> h[from + i - 1].sender, content |-> h[from + i - 1].content,
         message_type |-> h[from + i - 1].message_type]]

\* C27: get-history with a limit k >= 0 (0 and k larger than the history
\* included) returns the last min(k, length) Messages of the history in
\* their order; without a limit it returns the whole history.
C27_HistoryLimit ==
    [][ret'.op = "history" =>
          LET h == HistoryOf(ret'.name)
              limit == ret'.value.limit
              k == IF limit = <<>> THEN Len(h)
                   ELSE IF limit[1] < Len(h) THEN limit[1] ELSE Len(h)
          IN ret'.value.messages = OutTail(h, Len(h) - k + 1)]_vars

\* C28: after register_provider(name, p), get_provider(name) returns the
\* registered instance p itself and list_providers contains name;
\* get_provider of a name not registered fails with a KeyError naming it;
\* neither lookup changes the registry.
C28_ProviderRegistry ==
    [][/\ ret'.op = "register_provider" =>
            /\ ret'.name \in DOMAIN REGISTRY'
            /\ REGISTRY'[ret'.name] = ret'.value
       /\ ret'.op = "get_provider" =>
            /\ REGISTRY' = REGISTRY
            /\ IF ret'.name \in DOMAIN REGISTRY
               THEN ret'.status = "ok" /\ ret'.value = REGISTRY[ret'.name]
               ELSE /\ ret'.status = "KeyError"
                    /\ ret'.value = [kind |-> "KeyError", id |-> ret'.name]
       /\ ret'.op = "list_providers" =>
            /\ REGISTRY' = REGISTRY
            /\ ret'.value = DOMAIN REGISTRY]_vars

\* C29: shutdown_all always completes by returning a ShutdownReport and
\* leaving the registry empty, also when a shutdown_agent of a snapshot name
\* or a spawn of a new name runs at its suspension points.
C29_ShutdownAllCompletes ==
    [][ret'.op = "shutdown_all" =>
          /\ ret'.status = "ok"
          /\ SeqSet(ret'.value.succeeded) \cup DOMAIN ret'.value.failed \subseteq Names
          /\ agents' = <<>> /\ configs' = <<>>]_vars

\* The report accounts for exactly the names in `performed`: those whose
\* shutdown returned are in succeeded, in the order of `performed`.
Accounts(report, performed) ==
    /\ DOMAIN report.failed \subseteq SeqSet(performed)
    /\ report.succeeded = SelectSeq(performed, LAMBDA n : n \notin DOMAIN report.failed)

\* C30: shutdown_all takes a snapshot of the names in registration order and
\* shuts the agents down one at a time in that order: it awaits one shutdown,
\* that of names[i], with names[1..i-1] already recorded, and succeeded lists
\* the names in the order in which their shutdowns were performed.
C30_ShutdownAllSequential ==
    [][\A t \in Tasks :
         /\ (pc[t] # "shutdown_all" /\ pc'[t] = "shutdown_all") =>
                /\ frame'[t].names = Keys(agents)
                /\ frame'[t].i = 1
         /\ pc'[t] = "shutdown_all" =>
                /\ frame'[t].i \in 1..Len(frame'[t].names)
                /\ frame'[t].name = frame'[t].names[frame'[t].i]
                /\ Accounts(frame'[t].report,
                            SubSeq(frame'[t].names, 1, frame'[t].i - 1))
         /\ (pc[t] = "shutdown_all" /\ pc'[t] = "shutdown_all" /\ frame'[t] # frame[t]) =>
                /\ frame'[t].names = frame[t].names
                /\ frame'[t].i = frame[t].i + 1
         /\ (pc[t] = "shutdown_all" /\ pc'[t] = "idle" /\ ret'.status = "ok") =>
                Accounts(ret'.value, frame[t].names)]_vars

\* shutdown_all has returned after shutting down b, registered first, and
\* then a.
C30_Witness ==
    /\ ret.op = "shutdown_all" /\ ret.status = "ok"
    /\ ret.value.succeeded = <<"b", "a">>
    /\ agents = <<>>

\* C31: at every suspension point, under any interleaving of spawn,
\* shutdown_agent and shutdown_all, the agent map and the config map hold
\* the same set of names.
C31_MapsAgree == KeySet(agents) = KeySet(configs)

\* A spawn and a shutdown_all are suspended while one agent is registered.
C31_Witness ==
    /\ pc[1] = "spawn" /\ pc[2] = "shutdown_all"
    /\ KeySet(agents) = {"a"} /\ KeySet(configs) = {"a"}

\* The errors the response sequence of the agent of task t can raise.
RaisedBy(t) ==
    {MapError(agentObj[frame[t].agent].agent_type, err) :
        err \in BackendErrors(agentObj[frame[t].agent].agent_type)}

\* C32: a send_message records the human Message when it starts; when the
\* agent's response sequence raises, that error reaches the caller and the
\* call records nothing more (none of the responses produced before the
\* error); for a name not registered AgentNotFoundError reaches the caller
\* and no history changes.
C32_SendErrorPropagates ==
    [][\A t \in Tasks :
         /\ (pc[t] = "idle" /\ pc'[t] = "send") =>
                histories' = [histories EXCEPT ![frame'[t].name] =
                                 Append(@, [sender |-> "human",
                                            recipients |-> <<frame'[t].name>>,
                                            content |-> frame'[t].content,
                                            message_type |-> "chat"])]
         /\ (pc[t] = "send" /\ pc'[t] = "idle" /\ ret'.status # "ok") =>
                /\ ret'.op = "send_message" /\ ret'.name = frame[t].name
                /\ ret'.status \in RaisedBy(t)
                /\ histories' = histories
         /\ (pc' = pc /\ ret'.op = "send_message" /\ ~Has(agents, ret'.name)) =>
                ret'.status = "AgentNotFoundError" /\ histories' = histories]_vars

\* A turn has failed: the history holds the human Message alone.
C32_Witness ==
    /\ ret.op = "send_message" /\ ret.status \notin {"ok", "AgentNotFoundError", "KeyError"}
    /\ "a" \in DOMAIN histories
    /\ histories["a"] = <<[sender |-> "human", recipients |-> <<"a">>,
                           content |-> <<"hi">>, message_type |-> "chat"]>>

\* The agent instances registered in the map ags.
Registered(ags) == {ags[i].v : i \in 1..Len(ags)}

\* C33: every agent that leaves the registry (removed by shutdown_agent,
\* by the final clear of shutdown_all, or replaced by a spawn storing under
\* its name) has had its shutdown called.
C33_NoAgentDroppedUnshut ==
    [][\A a \in Registered(agents) \ Registered(agents') :
          agentObj[a].shutdowns > 0]_vars

\* C34: no agent whose shutdown has completed is reachable by name: at every
\* suspension point every registered agent (what get and list_agents can
\* return) is in a state other than terminated.
C34_NoTerminatedRegistered ==
    \A a \in Registered(agents) : agentObj[a].state # "terminated"

\* C35: in an agent's history every human Message is immediately followed by
\* the responses to that same message: when a send_message call returns its
\* responses into a history that was not emptied meanwhile, the history ends
\* with its human Message followed by exactly those responses.
C35_NoInterleavedTurns ==
    [][\A t \in Tasks :
         (pc[t] = "send" /\ pc'[t] = "idle" /\ ret'.status = "ok"
            /\ histories[frame[t].name] # <<>>) =>
             LET h == histories'[frame[t].name]
                 k == Len(h) - Len(ret'.value)
             IN /\ k >= 1
                /\ h[k] = HumanMessage(frame[t].name, frame[t].content)
                /\ SubSeq(h, k + 1, Len(h)) = ret'.value]_vars

\* C36: in multi-turn mode a query is only issued on a session whose connect
\* has completed successfully: every step that calls query() on the
\* ClaudeSDKClient finds or leaves the session connected.
C36_QueryOnlyWhenConnected ==
    [][(Len(session') = Len(session) + 1 /\ session'[Len(session')] = "query") =>
          agent'.client = "connected"]_vars

\* C37: the one-shot task route leaves no ephemeral agent behind: when the
\* request has completed, with a response or with an error, the agent it
\* spawned is no longer in the registry.
C37_TaskLeavesNoAgent ==
    [][\A t \in Tasks :
         (pc[t] \in {"task_spawn", "task_send", "task_shutdown"} /\ pc'[t] = "idle"
            /\ frame[t].agent # 0) =>
             frame[t].agent \notin Registered(agents')]_vars

\* C38: while a daemon is serving (its Unix-socket listener is up), its PID
\* file exists and records its PID and its socket file exists, whatever
\* concurrent start attempts do.
C38_ServingKeepsFiles ==
    \A p \in DOMAIN dproc :
        (dproc[p].pc = "serving" /\ dproc[p].servers["uds"] = "listening") =>
            /\ pidfile = write_pid_file(p)
            /\ sockfile # None

\* C39: every name registered in the engine's registry has a history entry,
\* and send_message on a registered agent never fails for a missing entry
\* (KeyError).
C39_RegisteredHasHistory ==
    /\ KeySet(agents) \subseteq DOMAIN histories
    /\ ~(ret.op = "send_message" /\ ret.status = "KeyError")

\* An agent is registered with its history entry, and a message to it has
\* been answered and recorded there.
C39_Witness ==
    /\ KeySet(agents) = {"a"} /\ "a" \in DOMAIN histories
    /\ ret.op = "send_message" /\ ret.name = "a" /\ ret.status = "ok"
    /\ Len(ret.value) > 0
    /\ Len(histories["a"]) = 1 + Len(ret.value)


\* C40: the registry invokes shutdown at most once on any agent instance,
\* and shutdown_agent fails only with AgentNotFoundError or with the error
\* the agent's own shutdown raised, also when shutdown calls overlap.
C40_ShutdownOnce ==
    /\ \A a \in DOMAIN agentObj : agentObj[a].shutdowns <= 1
    /\ ret.op = "shutdown_agent" =>
           ret.status \in {"ok", "AgentNotFoundError", "AgentShutdownError"}
====
